---- MODULE Spec2Model ----
(***************************************************************************)
(* Model of the shared_ebay package: the credential store (.env /          *)
(* os.environ), the per-suffix registries of Config and TokenManager       *)
(* instances, the token validity/refresh protocol of TokenManager and the  *)
(* retry loop of eBayClient.get_item_details.                              *)
(***************************************************************************)
EXTENDS Integers, Sequences, FiniteSets, TLC

VARIABLES
    env,              \* the credential store: key -> value, None when unset
    _config,          \* config.py _config: suffix -> Config instance
    _token_managers,  \* auth.py _token_managers: suffix -> TokenManager instance
    constructed,      \* how many instances of each class were constructed per suffix
    call,             \* the operation performed by the last step and what it did
    client,           \* the eBayClient instance (token_refreshed_at, headers)
    now,              \* wall clock, seconds
    frames,           \* stack of active get_item_details calls (innermost last)
    gid,              \* what the running top-level get_item_details has done
    listing,          \* a fetch_listing_data call: what it is given and what it returns
    race              \* two threads in ensure_valid_token for one account

vars ==
    <<env, _config, _token_managers, constructed, call, client, now, frames, gid, listing,
      race>>

authVars == <<env, _config, _token_managers, constructed, call>>
clientVars == <<client, now, frames, gid, listing, race>>

----------------------------------------------------------------------------
(* Values *)

\* Python's None (os.getenv of an unset key, a function returning nothing).
None == "<None>"

\* The account suffixes in use; "" is the default account.
Suffixes == {"", "2"}

\* Python truthiness of an Optional[str]: None and "" are falsy.
Truthy(v) == v # None /\ v # ""

----------------------------------------------------------------------------
(* config.py *)

\* A plausible slip: the suffix is dropped, every account shares the base key.
_key_NoSuffix(base, suffix) == base

\* _key(base, suffix): f"{base}_{suffix}" if suffix else base
_key(base, suffix) == IF suffix # "" THEN base \o "_" \o suffix ELSE base

Bases == {"EBAY_APP_ID", "EBAY_CLIENT_SECRET", "EBAY_USER_TOKEN", "EBAY_REFRESH_TOKEN"}

EnvKeys == {_key(b, s) : b \in Bases, s \in Suffixes}

\* os.getenv(key): the stored value, None for a key the store does not hold.
Getenv(e, key) == IF key \in DOMAIN e THEN e[key] ELSE None

\* Config.__init__(suffix): reads the account's credentials once, at construction.
\* The keys it reads are listed with it.
ConfigKeysRead(suffix) == {_key("EBAY_APP_ID", suffix), _key("EBAY_CLIENT_SECRET", suffix),
                           _key("EBAY_USER_TOKEN", suffix), _key("EBAY_REFRESH_TOKEN", suffix)}

\* The identity of an object: its class, its suffix and the serial number of
\* its construction among the objects of that class and suffix.
Classes == {"Config", "TokenManager"}
ObjId(class, suffix, serial) == [class |-> class, suffix |-> suffix, serial |-> serial]
NoObj == ObjId("", "", 0)
Construct(made, class, suffix) == [made EXCEPT ![<<class, suffix>>] = @ + 1]

NewConfig(e, suffix, made) ==
    [id |-> ObjId("Config", suffix, made[<<"Config", suffix>>] + 1), suffix |-> suffix,
     ebay_app_id |-> Getenv(e, _key("EBAY_APP_ID", suffix)),
     ebay_client_secret |-> Getenv(e, _key("EBAY_CLIENT_SECRET", suffix))]

\* dict[key] = value
DictSet(d, k, v) == [x \in DOMAIN d \cup {k} |-> IF x = k THEN v ELSE d[x]]

\* A plausible slip: the membership test is missing, every call constructs.
RegistryHas_Never(reg, suffix) == FALSE

\* "suffix in registry" of get_config / get_token_manager
RegistryHas(reg, suffix) == suffix \in DOMAIN reg

\* get_config(suffix) as a function of the registry: the registry after the
\* call, the instance returned, the construction counts and the keys read.
GetConfigResult(e, cfgs, made, suffix) ==
    IF ~RegistryHas(cfgs, suffix)
    THEN [cfgs |-> DictSet(cfgs, suffix, NewConfig(e, suffix, made)),
          ret |-> NewConfig(e, suffix, made), made |-> Construct(made, "Config", suffix),
          reads |-> ConfigKeysRead(suffix)]
    ELSE [cfgs |-> cfgs, ret |-> cfgs[suffix], made |-> made, reads |-> {}]

\* get_token_manager(suffix): TokenManager.__init__ calls get_config(suffix).
GetTokenManagerResult(e, cfgs, tms, made, suffix) ==
    IF ~RegistryHas(tms, suffix)
    THEN LET c == GetConfigResult(e, cfgs, made, suffix)
             tm == [id |-> ObjId("TokenManager", suffix, made[<<"TokenManager", suffix>>] + 1),
                    suffix |-> suffix, config |-> c.ret]
         IN [cfgs |-> c.cfgs, tms |-> DictSet(tms, suffix, tm), ret |-> tm,
             made |-> Construct(c.made, "TokenManager", suffix), reads |-> c.reads]
    ELSE [cfgs |-> cfgs, tms |-> tms, ret |-> tms[suffix], made |-> made, reads |-> {}]

----------------------------------------------------------------------------
(* HTTP outcomes: what requests.get / requests.post gives back *)

Resp(status) == [kind |-> "response", status |-> status]
Exc(name) == [kind |-> name, status |-> 0]

\* requests.exceptions raised by the transport; all derive from RequestException.
TransportErrors == {"Timeout", "ConnectionError"}

\* Statuses the validity probe is answered with.
ProbeStatuses == {200, 401, 404, 500}
ProbeOutcomes == {Resp(st) : st \in ProbeStatuses} \cup {Exc(x) : x \in TransportErrors}

\* JSON objects of the token endpoint: any subset of the two token keys.
\* Tokens the endpoint issues: a new access token; the refresh token is the
\* one already stored (r1) or a rotated one (r2).
AccessTokens == {"a2"}
RefreshTokens == {"r1", "r2"}
EmptyDict == [k \in {} |-> ""]
TokenDicts ==
    {EmptyDict}
    \cup {[k \in {"access_token"} |-> a] : a \in AccessTokens}
    \cup {[k \in {"refresh_token"} |-> r] : r \in RefreshTokens}
    \cup {[k \in {"access_token", "refresh_token"} |->
              IF k = "access_token" THEN a ELSE r] : a \in AccessTokens, r \in RefreshTokens}

\* requests.Response.raise_for_status(): raises HTTPError for 4xx and 5xx only.
RaiseForStatus(status) == 400 <= status /\ status < 600

\* Statuses the token endpoint answers with.
TokenStatuses == {200, 304, 400, 500}
\* A response of the token endpoint: status, whether the body parses as JSON,
\* and the parsed object.
TokenResp(status, json, data) == [kind |-> "response", status |-> status, json |-> json, data |-> data]
\* The body of a 4xx/5xx answer is never read: one body stands for all.
TokenOutcomes ==
    {TokenResp(st, TRUE, d) : st \in {x \in TokenStatuses : ~RaiseForStatus(x)}, d \in TokenDicts}
    \cup {TokenResp(st, FALSE, EmptyDict) : st \in TokenStatuses}
    \cup {[kind |-> x, status |-> 0, json |-> FALSE, data |-> EmptyDict] : x \in TransportErrors}

\* set_key may fail (the .env file cannot be written): the key whose write raises.
Faults == {"none", "EBAY_USER_TOKEN", "EBAY_REFRESH_TOKEN"}
\* The response field save_tokens stores under a key.
TokenField(base) == IF base = "EBAY_USER_TOKEN" THEN "access_token" ELSE "refresh_token"

----------------------------------------------------------------------------
(* auth.py: TokenManager *)

\* A plausible slip: every non-200 status counts as an invalid token.
TestTokenValidity_Only200(out) ==
    IF out.kind = "response"
    THEN (IF out.status = 200 THEN "valid" ELSE "invalid")
    ELSE IF out.kind \in TransportErrors THEN "valid" ELSE "raised"

\* A plausible slip: a transport failure counts as an invalid token.
TestTokenValidity_NetInvalid(out) ==
    IF out.kind = "response"
    THEN (IF out.status = 401 THEN "invalid" ELSE "valid")
    ELSE "invalid"

\* A plausible slip: the except clause is missing, a transport failure escapes.
TestTokenValidity_Uncaught(out) ==
    IF out.kind = "response"
    THEN (IF out.status = 401 THEN "invalid" ELSE "valid")
    ELSE "raised"

\* test_token_validity(token): 401 is invalid, every other status is valid, and
\* a RequestException is caught and reported as valid.
TestTokenValidity(out) ==
    IF out.kind = "response"
    THEN (IF out.status = 401 THEN "invalid" ELSE "valid")
    ELSE IF out.kind \in TransportErrors THEN "valid" ELSE "raised"

\* refresh_access_token(refresh_token): sent says whether the POST was made,
\* ok whether a dict (not None) was returned, data the dict.
RefreshAccessToken(cfg, out) ==
    IF ~Truthy(cfg.ebay_app_id) \/ ~Truthy(cfg.ebay_client_secret)
    THEN [sent |-> FALSE, ok |-> FALSE, data |-> EmptyDict]
    ELSE IF out.kind # "response" \/ RaiseForStatus(out.status) \/ ~out.json
         THEN [sent |-> TRUE, ok |-> FALSE, data |-> EmptyDict]
         ELSE [sent |-> TRUE, ok |-> TRUE, data |-> out.data]

\* A plausible slip: the refresh token is written unconditionally, None when
\* the response carries none.
SaveTokens_Always(e, suffix, data, fault) ==
    LET k1 == _key("EBAY_USER_TOKEN", suffix)
        k2 == _key("EBAY_REFRESH_TOKEN", suffix)
        e1 == IF "access_token" \in DOMAIN data THEN DictSet(e, k1, data["access_token"]) ELSE e
        e2 == DictSet(e1, k2, IF "refresh_token" \in DOMAIN data THEN data["refresh_token"] ELSE None)
    IN [env |-> e2, ok |-> TRUE, writes |-> {k2} \cup (IF "access_token" \in DOMAIN data THEN {k1} ELSE {})]

\* save_tokens(token_data): one set_key per key present in the response, the
\* access token first; an exception of set_key ends the save with False and
\* keeps what was written before it.
SaveTokens(e, suffix, data, fault) ==
    LET k1 == _key("EBAY_USER_TOKEN", suffix)
        k2 == _key("EBAY_REFRESH_TOKEN", suffix)
        w1 == "access_token" \in DOMAIN data
        f1 == w1 /\ fault = "EBAY_USER_TOKEN"
        e1 == IF w1 /\ ~f1 THEN DictSet(e, k1, data["access_token"]) ELSE e
        w2 == ~f1 /\ "refresh_token" \in DOMAIN data
        f2 == w2 /\ fault = "EBAY_REFRESH_TOKEN"
        e2 == IF w2 /\ ~f2 THEN DictSet(e1, k2, data["refresh_token"]) ELSE e1
    IN [env |-> e2, ok |-> ~f1 /\ ~f2,
        writes |-> (IF w1 /\ ~f1 THEN {k1} ELSE {}) \cup (IF w2 /\ ~f2 THEN {k2} ELSE {})]

\* The events of one ensure_valid_token call, in program order.
ProbeEv(token, out) == [ev |-> "probe", token |-> token, out |-> out]
RefreshEv(rt, res) == [ev |-> "refresh", rt |-> rt, ok |-> res.ok, data |-> res.data]
PostEv(rt, out) == [ev |-> "post", rt |-> rt, kind |-> out.kind, status |-> out.status,
                    json |-> out.json, data |-> out.data]
SaveEv(data, ok) == [ev |-> "save", data |-> data, ok |-> ok]

EvResult(result, e, events, reads, writes) ==
    [result |-> result, env |-> e, events |-> events, reads |-> reads, writes |-> writes]

\* A plausible slip: the result is reported before the tokens are saved.
EnsureValidToken_NoSave(e, cfg, suffix, probeOut, tokOut, fault) ==
    LET kt == _key("EBAY_USER_TOKEN", suffix)
        kr == _key("EBAY_REFRESH_TOKEN", suffix)
        current_token == Getenv(e, kt)
        refresh_token == Getenv(e, kr)
        token_data == RefreshAccessToken(cfg, tokOut)
        evRefresh == <<ProbeEv(current_token, probeOut), RefreshEv(refresh_token, token_data)>>
                       \o (IF token_data.sent THEN <<PostEv(refresh_token, tokOut)>> ELSE << >>)
    IN IF ~Truthy(current_token) THEN EvResult("False", e, << >>, {kt}, {})
       ELSE IF TestTokenValidity(probeOut) = "valid"
       THEN EvResult("True", e, <<ProbeEv(current_token, probeOut)>>, {kt}, {})
       ELSE IF ~Truthy(refresh_token)
       THEN EvResult("False", e, <<ProbeEv(current_token, probeOut)>>, {kt, kr}, {})
       ELSE IF ~token_data.ok \/ token_data.data = EmptyDict
       THEN EvResult("False", e, evRefresh, {kt, kr}, {})
       ELSE EvResult("True", e, evRefresh, {kt, kr}, {})

\* TokenManager.ensure_valid_token(): the whole call, as a function of the
\* store, the manager's Config and the outcomes of the I/O it performs.
EnsureValidToken(e, cfg, suffix, probeOut, tokOut, fault) ==
    LET kt == _key("EBAY_USER_TOKEN", suffix)
        kr == _key("EBAY_REFRESH_TOKEN", suffix)
        current_token == Getenv(e, kt)
        is_valid == TestTokenValidity(probeOut)
        refresh_token == Getenv(e, kr)
        token_data == RefreshAccessToken(cfg, tokOut)
        saved == SaveTokens(e, suffix, token_data.data, fault)
        evProbe == <<ProbeEv(current_token, probeOut)>>
        evRefresh == evProbe \o <<RefreshEv(refresh_token, token_data)>>
                       \o (IF token_data.sent THEN <<PostEv(refresh_token, tokOut)>> ELSE << >>)
        evSave == evRefresh \o <<SaveEv(token_data.data, saved.ok)>>
    IN IF ~Truthy(current_token) THEN EvResult("False", e, << >>, {kt}, {})
       ELSE IF is_valid = "raised" THEN EvResult("Raised", e, evProbe, {kt}, {})
       ELSE IF is_valid = "valid" THEN EvResult("True", e, evProbe, {kt}, {})
       ELSE IF ~Truthy(refresh_token) THEN EvResult("False", e, evProbe, {kt, kr}, {})
       ELSE IF ~token_data.ok \/ token_data.data = EmptyDict
       THEN EvResult("False", e, evRefresh, {kt, kr}, {})
       ELSE EvResult(IF saved.ok THEN "True" ELSE "False", saved.env, evSave, {kt, kr}, saved.writes)

----------------------------------------------------------------------------
(* The accounts the store starts with *)

\* One account's four credentials.
Account(app, secret, token, refresh) ==
    [EBAY_APP_ID |-> app, EBAY_CLIENT_SECRET |-> secret,
     EBAY_USER_TOKEN |-> token, EBAY_REFRESH_TOKEN |-> refresh]

\* Configured accounts with and without each token, and accounts whose app id
\* or client secret is unset.
InitialAccounts ==
    {Account("app", "secret", "a1", r) : r \in {None, "", "r1"}}
    \cup {Account("app", "secret", t, "r1") : t \in {None, ""}}
    \cup {Account(None, "secret", "a1", "r1"), Account("app", None, "a1", "r1")}

\* The store holding account acct[s] under suffix s.
StoreOf(acct) ==
    [k \in EnvKeys |->
        LET s == CHOOSE x \in Suffixes : \E b \in Bases : _key(b, x) = k
            b == CHOOSE y \in Bases : _key(y, s) = k
        IN acct[s][b]]

NoCall == [op |-> "none", suffix |-> "", result |-> "-", ret |-> NoObj,
           events |-> << >>, reads |-> {}, writes |-> {}]

EmptyRegistry == [s \in {} |-> 0]

\* The stores the program starts with: every account is one of InitialAccounts.
InitAuth ==
    /\ \E acct \in [Suffixes -> InitialAccounts] : env = StoreOf(acct)
    /\ _config = EmptyRegistry
    /\ _token_managers = EmptyRegistry
    /\ constructed = [c \in Classes \X Suffixes |-> 0]
    /\ call = NoCall

----------------------------------------------------------------------------
(* Operations of config.py and auth.py *)

\* get_config(suffix)
GetConfig(suffix) ==
    LET g == GetConfigResult(env, _config, constructed, suffix)
    IN /\ call = NoCall
       /\ _config' = g.cfgs
       /\ constructed' = g.made
       /\ call' = [NoCall EXCEPT !.op = "get_config", !.suffix = suffix,
                                  !.ret = g.ret.id, !.reads = g.reads]
       /\ UNCHANGED <<env, _token_managers>>

\* Config.validate(): raises ConfigurationError when the app id or the client
\* secret is not set.
Validate(cfg) ==
    IF ~Truthy(cfg.ebay_app_id) \/ ~Truthy(cfg.ebay_client_secret)
    THEN "ConfigurationError" ELSE "None"

\* get_config(suffix).validate(), as config.py documents its use
ConfigValidate(suffix) ==
    LET g == GetConfigResult(env, _config, constructed, suffix)
    IN /\ call = NoCall
       /\ _config' = g.cfgs
       /\ constructed' = g.made
       /\ call' = [NoCall EXCEPT !.op = "validate", !.suffix = suffix,
                                  !.result = Validate(g.ret),
                                  !.ret = g.ret.id, !.reads = g.reads]
       /\ UNCHANGED <<env, _token_managers>>

\* get_token_manager(suffix)
GetTokenManager(suffix) ==
    LET g == GetTokenManagerResult(env, _config, _token_managers, constructed, suffix)
    IN /\ call = NoCall
       /\ _config' = g.cfgs
       /\ _token_managers' = g.tms
       /\ constructed' = g.made
       /\ call' = [NoCall EXCEPT !.op = "get_token_manager", !.suffix = suffix,
                                  !.ret = g.ret.id, !.reads = g.reads]
       /\ UNCHANGED env

\* Whether a call performed an event of the given kind.
Did(events, ev) == \E i \in DOMAIN events : events[i].ev = ev

\* The outcomes a call can meet: an I/O the call does not perform has none, so
\* its input is fixed.
DefaultProbe == Resp(200)
DefaultTok == TokenResp(200, FALSE, EmptyDict)
ProbeInputs(e, cfg, suffix) ==
    IF Did(EnsureValidToken(e, cfg, suffix, DefaultProbe, DefaultTok, "none").events, "probe")
    THEN ProbeOutcomes ELSE {DefaultProbe}
TokenInputs(e, cfg, suffix, probeOut) ==
    IF Did(EnsureValidToken(e, cfg, suffix, probeOut, DefaultTok, "none").events, "post")
    THEN TokenOutcomes ELSE {DefaultTok}
FaultInputs(e, cfg, suffix, probeOut, tokOut) ==
    IF Did(EnsureValidToken(e, cfg, suffix, probeOut, tokOut, "none").events, "save")
    THEN {f \in Faults : f = "none" \/ TokenField(f) \in DOMAIN tokOut.data}
    ELSE {"none"}

\* ensure_valid_token(verbose, suffix): get_token_manager(suffix).ensure_valid_token()
EnsureValidTokenCall(suffix) ==
    LET g == GetTokenManagerResult(env, _config, _token_managers, constructed, suffix)
        cfg == g.ret.config
    IN /\ call = NoCall
       /\ \E probeOut \in ProbeInputs(env, cfg, suffix) :
          \E tokOut \in TokenInputs(env, cfg, suffix, probeOut) :
          \E fault \in FaultInputs(env, cfg, suffix, probeOut, tokOut) :
            LET r == EnsureValidToken(env, cfg, suffix, probeOut, tokOut, fault)
            IN /\ env' = r.env
               /\ _config' = g.cfgs
               /\ _token_managers' = g.tms
               /\ constructed' = g.made
               /\ call' = [op |-> "ensure_valid_token", suffix |-> suffix,
                           result |-> r.result, ret |-> g.ret.id, events |-> r.events,
                           reads |-> g.reads \cup r.reads, writes |-> r.writes]

\* The finished call returns to its caller: the record of what it did is dropped
\* and the next operation may start (the program is sequential).
Return ==
    /\ call # NoCall
    /\ call' = NoCall
    /\ UNCHANGED <<env, _config, _token_managers, constructed>>

----------------------------------------------------------------------------
(* client.py: eBayClient *)

\* eBayClient.token_refresh_threshold
TokenRefreshThreshold == 5400
\* timedelta.seconds is the seconds part of the difference, the days left out
SecondsPerDay == 86400
\* get_item_details(item_id, max_retries=3)
DefaultMaxRetries == 3

\* token_refreshed_at = None
NoTime == -1
NoClient == [made |-> FALSE, user_token |-> None, token_refreshed_at |-> NoTime]

\* _should_refresh_token()
ShouldRefreshToken(c, t) ==
    IF c.token_refreshed_at = NoTime THEN TRUE
    ELSE LET age_seconds == (t - c.token_refreshed_at) % SecondsPerDay
         IN age_seconds > TokenRefreshThreshold

\* _refresh_token(): ensure_valid_token() for the default account, then the
\* token is read from EBAY_USER_TOKEN; raised says that ValueError is raised.
\* The rest of _refresh_token() once ensure_valid_token() has given `r`, with
\* `g` what get_token_manager() did.
RefreshTokenAfter(g, r, c, t) ==
    LET user_token == Getenv(r.env, "EBAY_USER_TOKEN")
        raised == r.result # "True" \/ ~Truthy(user_token)
    IN [raised |-> raised, env |-> r.env, cfgs |-> g.cfgs, tms |-> g.tms, made |-> g.made,
        client |-> IF raised THEN c
                   ELSE [made |-> c.made, user_token |-> user_token, token_refreshed_at |-> t],
        ensure |-> [op |-> "ensure_valid_token", suffix |-> "", result |-> r.result,
                    ret |-> g.ret.id, events |-> r.events,
                    reads |-> g.reads \cup r.reads, writes |-> r.writes]]
RefreshTokenWith(g, e, c, t, probeOut, tokOut, fault) ==
    RefreshTokenAfter(g, EnsureValidToken(e, g.ret.config, "", probeOut, tokOut, fault), c, t)
ClientRefreshToken(e, cfgs, tms, made, c, t, probeOut, tokOut, fault) ==
    RefreshTokenWith(GetTokenManagerResult(e, cfgs, tms, made, ""), e, c, t,
                     probeOut, tokOut, fault)

\* eBayClient(): get_config() and the first _refresh_token().
NoClientIfRaised(r) == [r EXCEPT !.client = IF r.raised THEN NoClient ELSE r.client]
NewClientWith(c, e, tms, t, probeOut, tokOut, fault) ==
    NoClientIfRaised(ClientRefreshToken(e, c.cfgs, tms, c.made,
                                        [NoClient EXCEPT !.made = TRUE], t,
                                        probeOut, tokOut, fault))
NewClientResult(e, cfgs, tms, made, t, probeOut, tokOut, fault) ==
    NewClientWith(GetConfigResult(e, cfgs, made, ""), e, tms, t, probeOut, tokOut, fault)

\* 2 ** k
Pow2(k) == 2^k

\* The answers of the item-detail endpoint: a status with a body that parses as
\* JSON or not and, for an error body, the errorId values of its errors list;
\* or an exception of requests.get.
\* response.text[:100]: a body is known by its length in characters, its
\* first n characters by n.
TruncateAt == 100
\* errorsOk: error_data.get('errors', []) and error.get('errorId') can be
\* evaluated, the body being an object whose errors are a list of objects.
DetailRespText(status, json, errorIds, text) ==
    [kind |-> "response", status |-> status, json |-> json, errorIds |-> errorIds,
     text |-> text, errorsOk |-> TRUE]
DetailResp(status, json, errorIds) == DetailRespText(status, json, errorIds, TruncateAt - 1)
\* A JSON body that is no such object, e.g. [] or {"errors": ["x"]}: reading
\* its errors raises AttributeError or TypeError.
DetailRespBadErrors(status) ==
    [DetailRespText(status, TRUE, {}, TruncateAt - 1) EXCEPT !.errorsOk = FALSE]
DetailExc(name) ==
    [kind |-> name, status |-> 0, json |-> FALSE, errorIds |-> {}, text |-> 0,
     errorsOk |-> TRUE]
ItemGroupErrorId == 11006

\* The result of a call: a returned value or a raised exception.
\* An exception's message is known by the status code and the number of
\* leading characters of the body it quotes (0, 0: it quotes neither).
Returned(value, item) ==
    [kind |-> "return", value |-> value, item |-> item, status |-> 0, chars |-> 0]
RaisedMsg(exc, status, chars) ==
    [kind |-> "raise", value |-> exc, item |-> "", status |-> status, chars |-> chars]
Raised(exc) == RaisedMsg(exc, 0, 0)
ReturnedNone == Returned("None", "")
NoResult == [kind |-> "-", value |-> "", item |-> "", status |-> 0, chars |-> 0]

\* What one pass through the body of the retry loop does with the answer `out`
\* at attempt `attempt` of `max_retries`:
\*   act = "end": the call ends with `res`;
\*   act = "retry": the loop goes on after sleeping `secs` seconds (0: no sleep);
\*   act = "group": the call goes on in _get_item_group_details.
LoopEnd(res) == [act |-> "end", res |-> res, secs |-> 0]
LoopRetry(secs) == [act |-> "retry", res |-> NoResult, secs |-> secs]
LoopGroup == [act |-> "group", res |-> NoResult, secs |-> 0]

\* A plausible slip: the rate-limit backoff is the plain 2^attempt of the 5xx branch.
RateLimitWait_Plain(attempt) == Pow2(attempt)

\* wait_time = (2 ** attempt) * 2
RateLimitWait(attempt) == Pow2(attempt) * 2

\* A plausible slip: the last attempt backs off too, and the loop runs out.
MayRetry_Last(attempt, max_retries) == attempt < max_retries
\* attempt < max_retries - 1
MayRetry(attempt, max_retries) == attempt < max_retries - 1

\* A plausible slip: the 5xx and transport backoff doubles like the 429 one.
ServerErrorWait_Doubled(attempt) == Pow2(attempt) * 2

\* wait_time = (2 ** attempt)
ServerErrorWait(attempt) == Pow2(attempt)

\* response.text[:100]
Truncate(text) == IF text > TruncateAt THEN TruncateAt ELSE text

\* APIError(f"API error {response.status_code}: {response.text[:100]}")
ClientError(out) == RaisedMsg("APIError", out.status, Truncate(out.text))

LoopBody(item, attempt, max_retries, out) ==
    IF out.kind = "response" THEN
        IF out.status = 200 THEN
            (IF out.json THEN LoopEnd(Returned("payload", item)) ELSE LoopEnd(Raised("APIError")))
        ELSE IF 400 <= out.status /\ out.status < 500 THEN
            IF out.status = 401 THEN LoopEnd(Raised("UnauthorizedError"))
            ELSE IF out.status = 404 THEN LoopEnd(Raised("ItemNotFoundError"))
            ELSE IF out.status = 429 THEN
                (IF MayRetry(attempt, max_retries) THEN LoopRetry(RateLimitWait(attempt))
                 ELSE LoopEnd(Raised("RateLimitError")))
            ELSE IF out.status = 400 /\ out.json /\ ~out.errorsOk THEN LoopEnd(Raised("APIError"))
            ELSE IF out.status = 400 /\ out.json /\ ItemGroupErrorId \in out.errorIds THEN LoopGroup
            ELSE LoopEnd(ClientError(out))
        ELSE IF out.status >= 500 THEN
            (IF MayRetry(attempt, max_retries) THEN LoopRetry(ServerErrorWait(attempt))
             ELSE LoopEnd(Raised("APIError")))
        ELSE LoopRetry(0)
    ELSE IF out.kind \in TransportErrors THEN
        (IF MayRetry(attempt, max_retries) THEN LoopRetry(ServerErrorWait(attempt))
         ELSE LoopEnd(Raised("APIError")))
    ELSE LoopEnd(Raised("APIError"))

\* The answers of the item-group search: summaries is "none" (no itemSummaries,
\* or an empty list), "nolegacy" (the first summary has no legacyItemId) or
\* "legacy" (it has one, `member`).
SearchResp(status, json, summaries, member) ==
    [kind |-> "response", status |-> status, json |-> json, summaries |-> summaries,
     member |-> member]
SearchExc(name) == [kind |-> name, status |-> 0, json |-> FALSE, summaries |-> "none", member |-> ""]

\* A plausible slip: the first summary is returned although it names a member.
GroupSearch_NoRecurse(out) ==
    IF out.kind # "response" \/ out.status # 200 \/ ~out.json \/ out.summaries = "none"
    THEN LoopEnd(ReturnedNone)
    ELSE LoopEnd(Returned("summary", ""))

\* A plausible slip: a failed search is raised like a failed detail request.
GroupSearch_Raises(out) ==
    IF out.kind # "response" \/ out.status # 200 THEN LoopEnd(Raised("APIError"))
    ELSE IF ~out.json \/ out.summaries = "none" THEN LoopEnd(ReturnedNone)
    ELSE IF out.summaries = "nolegacy" THEN LoopEnd(Returned("summary", ""))
    ELSE [act |-> "recurse", res |-> NoResult, secs |-> 0]

\* _get_item_group_details up to the recursive call:
\*   act = "end": it returns `res`; act = "recurse": it calls get_item_details(member).
GroupSearch(out) ==
    IF out.kind # "response" THEN LoopEnd(ReturnedNone)
    ELSE IF out.status # 200 THEN LoopEnd(ReturnedNone)
    ELSE IF ~out.json THEN LoopEnd(ReturnedNone)
    ELSE IF out.summaries = "none" THEN LoopEnd(ReturnedNone)
    ELSE IF out.summaries = "nolegacy" THEN LoopEnd(Returned("summary", ""))
    ELSE [act |-> "recurse", res |-> NoResult, secs |-> 0]

\* What _get_item_group_details makes of the recursive call's result: the
\* value it returned, None for any exception ("except Exception: return None").
GroupResult(res) == IF res.kind = "raise" THEN ReturnedNone ELSE res

\* The log of a top-level get_item_details call.
ReqEv(ev, depth, item, attempt, token, out) ==
    [ev |-> ev, depth |-> depth, item |-> item, attempt |-> attempt, token |-> token,
     kind |-> out.kind, status |-> out.status, json |-> out.json, secs |-> 0, value |-> "",
     out |-> out]
SleepEv(depth, item, attempt, secs) ==
    [ev |-> "sleep", depth |-> depth, item |-> item, attempt |-> attempt, token |-> "",
     kind |-> "", status |-> 0, json |-> FALSE, secs |-> secs, value |-> ""]
EndEv(depth, item, res) ==
    [ev |-> "end", depth |-> depth, item |-> item, attempt |-> 0, token |-> "",
     kind |-> res.kind, status |-> 0, json |-> FALSE, secs |-> 0, value |-> res.value,
     res |-> res]
RefreshTokenEv(depth, item, ok) ==
    [ev |-> "refresh_token", depth |-> depth, item |-> item, attempt |-> 0, token |-> "",
     kind |-> IF ok THEN "ok" ELSE "ValueError", status |-> 0, json |-> FALSE, secs |-> 0,
     value |-> ""]

Frame(item, max_retries) ==
    [item |-> item, max_retries |-> max_retries, attempt |-> 0, stage |-> "detail"]

\* The innermost call ends with `res`: it is logged, and every caller up the
\* stack, which waits in _get_item_group_details, returns what that makes of it.
Unwind(fr, lg, res) ==
    LET d == Len(fr)
        \* the result of the call j levels above the innermost one
        up[j \in 0..(d - 1)] == IF j = 0 THEN res ELSE GroupResult(up[j - 1])
    IN [log |-> lg \o [j \in 1..d |-> EndEv(d - j + 1, fr[d - j + 1].item, up[j - 1])],
        res |-> up[d - 1]]

IdleGid == [state |-> "idle", item |-> "", max_retries |-> 0, res |-> NoResult, log |-> << >>]

\* The largest max_retries a caller passes, and the most requests one
\* top-level call is followed for (its nested calls through item groups
\* included; the code bounds neither).
MaxRetriesArg == 3
MaxRequests == 5

Items == {"i1", "i2"}
RetryCounts == 0..MaxRetriesArg
DetailOutcomes ==
    {DetailResp(200, TRUE, {}), DetailResp(200, FALSE, {}), DetailResp(204, FALSE, {}),
     DetailResp(401, TRUE, {}), DetailResp(404, TRUE, {}), DetailResp(429, TRUE, {}),
     DetailResp(400, TRUE, {ItemGroupErrorId}), DetailResp(400, TRUE, {}),
     DetailResp(400, FALSE, {}), DetailResp(403, TRUE, {}), DetailResp(500, TRUE, {}),
     DetailRespText(403, FALSE, {}, TruncateAt), DetailRespText(403, FALSE, {}, TruncateAt + 1),
     DetailRespBadErrors(400)}
    \cup {DetailExc(x) : x \in TransportErrors \cup {"TooManyRedirects"}}
SearchOutcomes ==
    {SearchResp(200, TRUE, "legacy", i) : i \in Items}
    \cup {SearchResp(200, TRUE, "nolegacy", ""), SearchResp(200, TRUE, "none", ""),
          SearchResp(200, FALSE, "none", ""), SearchResp(404, TRUE, "none", ""),
          SearchExc("Timeout")}

\* The instants at which a caller starts a call: at once after the client is
\* made, when its token is just older than the refresh threshold, or a day later.
StartInstants == {0, TokenRefreshThreshold + 1, SecondsPerDay}

Requests(lg) == {i \in DOMAIN lg : lg[i].ev \in {"detail", "search"}}

\* The call that `fr` is the stack of ends with `res`.
Finish(g, fr, lg, res) ==
    LET u == Unwind(fr, lg, res)
    IN /\ frames' = << >>
       /\ gid' = [g EXCEPT !.state = "done", !.res = u.res, !.log = u.log]

\* for attempt in range(max_retries): the loop is entered, or is empty.
EnterLoop(g, fr, lg, item, max_retries) ==
    IF max_retries <= 0 THEN Finish(g, Append(fr, Frame(item, max_retries)), lg, ReturnedNone)
    ELSE /\ frames' = Append(fr, Frame(item, max_retries))
         /\ gid' = [g EXCEPT !.log = lg]

\* The head of get_item_details(item, max_retries), called with `fr` the stack
\* of the calls it is nested in: the token is refreshed when due.
EnterCall(g, fr, lg, item, max_retries) ==
    IF ShouldRefreshToken(client, now) THEN
        \E cfg \in {GetTokenManagerResult(env, _config, _token_managers, constructed,
                                          "").ret.config} :
        \E probeOut \in ProbeInputs(env, cfg, "") :
        \E tokOut \in TokenInputs(env, cfg, "", probeOut) :
        \E fault \in FaultInputs(env, cfg, "", probeOut, tokOut) :
        \E r \in {ClientRefreshToken(env, _config, _token_managers, constructed, client,
                                     now, probeOut, tokOut, fault)} :
             LET lg2 == Append(lg, RefreshTokenEv(Len(fr) + 1, item, ~r.raised))
             IN /\ env' = r.env
                /\ _config' = r.cfgs
                /\ _token_managers' = r.tms
                /\ constructed' = r.made
                /\ client' = r.client
                /\ IF r.raised
                   THEN Finish(g, Append(fr, Frame(item, max_retries)), lg2, Raised("ValueError"))
                   ELSE EnterLoop(g, fr, lg2, item, max_retries)
    ELSE /\ UNCHANGED <<env, _config, _token_managers, constructed, client>>
         /\ EnterLoop(g, fr, lg, item, max_retries)

\* client.get_item_details(item, max_retries), up to its first request
GetItemDetails(item, max_retries) ==
    /\ client.made /\ gid.state = "idle" /\ call = NoCall
    /\ now \in StartInstants
    /\ EnterCall([IdleGid EXCEPT !.state = "running", !.item = item,
                                 !.max_retries = max_retries],
                 << >>, << >>, item, max_retries)
    /\ UNCHANGED <<call, now>>

\* requests.get of the item-detail endpoint answers `out`: one pass through the
\* body of the retry loop.
DetailResponse(out) ==
    /\ gid.state = "running" /\ frames # << >>
    /\ Cardinality(Requests(gid.log)) < MaxRequests
    /\ LET d == Len(frames)
           f == frames[d]
           b == LoopBody(f.item, f.attempt, f.max_retries, out)
           lg == Append(gid.log, ReqEv("detail", d, f.item, f.attempt, client.user_token, out))
       IN /\ f.stage = "detail"
          /\ CASE b.act = "end" ->
                    /\ Finish(gid, frames, lg, b.res)
                    /\ now' = now
               [] b.act = "group" ->
                    /\ frames' = [frames EXCEPT ![d].stage = "search"]
                    /\ gid' = [gid EXCEPT !.log = lg]
                    /\ now' = now
               [] b.act = "retry" ->
                    LET lg2 == IF b.secs > 0
                               THEN Append(lg, SleepEv(d, f.item, f.attempt, b.secs))
                               ELSE lg
                    IN /\ now' = now + b.secs
                       /\ IF f.attempt + 1 < f.max_retries
                          THEN /\ frames' = [frames EXCEPT ![d].attempt = f.attempt + 1]
                               /\ gid' = [gid EXCEPT !.log = lg2]
                          ELSE Finish(gid, frames, lg2, ReturnedNone)
    /\ UNCHANGED <<env, _config, _token_managers, constructed, call, client>>

\* requests.get of the item-group search answers `out`: the rest of
\* _get_item_group_details, the head of the recursive call included.
SearchResponse(out) ==
    /\ gid.state = "running" /\ frames # << >>
    /\ Cardinality(Requests(gid.log)) < MaxRequests
    /\ LET d == Len(frames)
           f == frames[d]
           s == GroupSearch(out)
           lg == Append(gid.log, ReqEv("search", d, f.item, 0, client.user_token, out))
       IN /\ f.stage = "search"
          /\ IF s.act = "end"
             THEN /\ Finish(gid, frames, lg, s.res)
                  /\ UNCHANGED <<env, _config, _token_managers, constructed, client>>
             ELSE /\ EnterCall(gid, frames, lg, out.member, DefaultMaxRetries)
    /\ UNCHANGED <<call, now>>

\* get_item_details has returned or raised: the caller may call again.
ClientReturn ==
    /\ gid.state = "done"
    /\ gid' = IdleGid
    /\ UNCHANGED <<env, _config, _token_managers, constructed, call, client, now, frames>>

----------------------------------------------------------------------------
(* client.py: fetch_listing_data *)

\* A value of the payload: absent, a number (or a string float() parses to
\* it), or something float() raises on.  Money is counted in cents.
Absent == [kind |-> "absent", value |-> 0]
Num(n) == [kind |-> "num", value |-> n]
Unparsable == [kind |-> "text", value |-> 0]
\* float(d.get('value', 0))
Parses(v) == v.kind # "text"
ToFloat(v) == IF v.kind = "num" THEN v.value ELSE 0

\* Config.sales_tax_rate, in percent: float(env('SALES_TAX_RATE', '0.0')), 0.0
\* when that raises ValueError.
SalesTaxRate(setting) == IF setting.kind = "num" THEN setting.value ELSE 0

\* The title and description of a payload, as far as the shipping rules read
\* them: the phrase they hold and whether it is written in capitals.
Text(phrase, caps) == [phrase |-> phrase, caps |-> caps]
NoText == Text("none", FALSE)
\* str.lower()
Lower(text) == [text EXCEPT !.caps = FALSE]
\* phrase in text (a comparison of characters: capitals do not match)
Contains(text, phrase) == text.phrase = phrase /\ ~text.caps
\* 'free shipping' in item_text or 'free delivery' in item_text
FreeShippingText(text) ==
    Contains(Lower(text), "free shipping") \/ Contains(Lower(text), "free delivery")

\* _extract_shipping_from_additional_fields: the cost the shipping fields give
\* (0: none), else the cost the text patterns match (0: none).
ExtractShipping(fieldCost, textCost) == IF fieldCost # 0 THEN fieldCost ELSE textCost

\* A plausible slip: a FREE first option keeps the cost it states.
FirstOption_KeepCost(shipping_type, shipping_cost) ==
    IF shipping_cost = 0 THEN [type |-> "FREE", cost |-> 0]
    ELSE [type |-> shipping_type, cost |-> shipping_cost]

\* A plausible slip: only the type FREE is normalized, a cost of 0 is not.
FirstOption_TypeOnly(shipping_type, shipping_cost) ==
    IF shipping_type = "FREE" THEN [type |-> "FREE", cost |-> 0]
    ELSE [type |-> shipping_type, cost |-> shipping_cost]
\* if shipping_type == 'FREE' or shipping_cost == 0: (FREE, 0.0)
FirstOption(shipping_type, shipping_cost) ==
    IF shipping_type = "FREE" \/ shipping_cost = 0 THEN [type |-> "FREE", cost |-> 0]
    ELSE [type |-> shipping_type, cost |-> shipping_cost]

\* The shipping rules: the first shipping option, else the free-shipping words
\* in title and description, else the additional fields.
\* A plausible slip: the fallback names its type differently.
Shipping_Estimated(p) ==
    IF p.options = "first" THEN FirstOption(p.optionType, ToFloat(p.optionCost))
    ELSE IF FreeShippingText(p.text) THEN [type |-> "FREE", cost |-> 0]
    ELSE IF ExtractShipping(p.fieldCost, p.textCost) > 0
         THEN [type |-> "ESTIMATED", cost |-> ExtractShipping(p.fieldCost, p.textCost)]
         ELSE [type |-> "Unknown", cost |-> 0]

Shipping(p) ==
    IF p.options = "first" THEN FirstOption(p.optionType, ToFloat(p.optionCost))
    ELSE IF FreeShippingText(p.text) THEN [type |-> "FREE", cost |-> 0]
    ELSE IF ExtractShipping(p.fieldCost, p.textCost) > 0
         THEN [type |-> "CALCULATED", cost |-> ExtractShipping(p.fieldCost, p.textCost)]
         ELSE [type |-> "Unknown", cost |-> 0]

\* import_charges: the importDuty amount, else 10% of item and shipping for an
\* item from outside the US.
ImportCharges(p, item_price, shipping_cost) ==
    IF ToFloat(p.duty) = 0 /\ p.country # "US" THEN ((item_price + shipping_cost) * 10) \div 100
    ELSE ToFloat(p.duty)

\* A plausible slip: the tax is charged on the item price alone.
SalesTax_ItemOnly(item_price, subtotal, rate) == (item_price * rate) \div 100

\* sales_tax = subtotal * self.config.sales_tax_rate
SalesTax(item_price, subtotal, rate) == (subtotal * rate) \div 100

PricesOf(item_price, ship, import_charges, rate) ==
    LET subtotal == item_price + ship.cost + import_charges
        sales_tax == SalesTax(item_price, subtotal, rate)
    IN [item_price |-> item_price, shipping_cost |-> ship.cost, shipping_type |-> ship.type,
        import_charges |-> import_charges, subtotal |-> subtotal, sales_tax |-> sales_tax,
        price |-> subtotal + sales_tax]

\* An entry of the payload's image or additionalImages: an object with an
\* imageUrl, an object without one, or a value that is no object.
ImageEntry(url) == [dict |-> TRUE, hasUrl |-> TRUE, url |-> url]
NoUrlEntry == [dict |-> TRUE, hasUrl |-> FALSE, url |-> 0]
NoDictEntry == [dict |-> FALSE, hasUrl |-> FALSE, url |-> 0]
\* isinstance(img, dict) and 'imageUrl' in img
HasImageUrl(img) == img.dict /\ img.hasUrl
\* the imageUrl of every entry that has one, in order
ImageUrls(entries) ==
    [i \in 1..Len(SelectSeq(entries, HasImageUrl)) |-> SelectSeq(entries, HasImageUrl)[i].url]
ImageLimit == 24
\* seq[:n]
Take(seq, n) == SubSeq(seq, 1, IF Len(seq) < n THEN Len(seq) ELSE n)
\* A plausible slip: the images are not cut.
Images_Uncut(p) == ImageUrls(p.image) \o ImageUrls(p.additionalImages)
\* images: the primary image's URL, then the additional images' URLs, cut to 24
Images(p) == Take(ImageUrls(p.image) \o ImageUrls(p.additionalImages), ImageLimit)

\* The ListingData fetch_listing_data builds of the payload p (its prices and
\* its images).
ListingRecord(p, rate) ==
    PricesOf(ToFloat(p.price), Shipping(p),
             ImportCharges(p, ToFloat(p.price), Shipping(p).cost), rate)
    @@ [images |-> Images(p)]

\* The parsing raises: float() on a value it reaches, or .get() on a seller or
\* returnTerms that is no object.
ParsingRaises(p) ==
    \/ ~Parses(p.price)
    \/ p.options = "first" /\ ~Parses(p.optionCost)
    \/ ~Parses(p.duty)
    \/ p.seller = "text"
    \/ p.returnTerms = "text"

\* A URL as extract_item_id_from_url reads it: whether it is a string urlparse
\* accepts, whether it starts with a scheme and "//", the host that follows,
\* the path's segments (the strings between its slashes) and whether the query
\* holds "/itm/".
Url(scheme, host, segments, itmInQuery) ==
    [kind |-> "url", scheme |-> scheme, host |-> host, segments |-> segments,
     itmInQuery |-> itmInQuery]
\* A string urlparse raises ValueError for, and an argument that is no string.
MalformedUrl == [Url(TRUE, "[", << >>, FALSE) EXCEPT !.kind = "malformed"]
NotAString == [Url(FALSE, "", << >>, FALSE) EXCEPT !.kind = "other"]
\* urlparse(url): without a scheme the whole of the string is path.
Urlparse(u) ==
    IF u.scheme THEN [netloc |-> u.host, path_parts |-> <<"">> \o u.segments]
    ELSE [netloc |-> "", path_parts |-> <<u.host>> \o u.segments]
\* 'ebay.com' in netloc
VendorHosts == {"www.ebay.com", "ebay.com", "ebay.com.example.net"}
HasVendorDomain(netloc) == netloc \in VendorHosts
\* '/itm/' in url
HasItmSlash(u) ==
    \/ u.itmInQuery
    \/ \E i \in 1..(Len(u.segments) - 1) : u.segments[i] = "itm"
\* str.isdigit()
DigitStrings == {"123", "456"}
IsDigit(part) == part \in DigitStrings
\* The passes of the two loops that reach `return potential_id`: part i is
\* 'itm' and is not the last, part j after it is all digits.
Hits(parts) ==
    {h \in (1..Len(parts)) \X (1..Len(parts)) :
        /\ parts[h[1]] = "itm" /\ h[1] + 1 <= Len(parts)
        /\ h[2] > h[1] /\ IsDigit(parts[h[2]])}
\* The pass of the loops that comes first.
FirstHit(parts) ==
    CHOOSE h \in Hits(parts) :
        \A g \in Hits(parts) : h[1] < g[1] \/ (h[1] = g[1] /\ h[2] <= g[2])
\* A plausible slip: the last hit is taken.
FoundId_Last(parts) ==
    parts[(CHOOSE h \in Hits(parts) :
              \A g \in Hits(parts) : h[1] < g[1] \/ (h[1] = g[1] /\ h[2] >= g[2]))[2]]
FoundId(parts) == parts[FirstHit(parts)[2]]
\* A plausible slip: the host is not looked at.
ExtractItemId_AnyHost(u) ==
    IF u.kind # "url" THEN None
    ELSE IF ~HasItmSlash(u) THEN None
    ELSE IF Hits(Urlparse(u).path_parts) = {} THEN None
    ELSE FoundId(Urlparse(u).path_parts)
\* eBayClient.extract_item_id_from_url(url): None when anything raises
ExtractItemId(u) ==
    IF u.kind # "url" THEN None
    ELSE IF ~HasVendorDomain(Urlparse(u).netloc) THEN None
    ELSE IF ~HasItmSlash(u) THEN None
    ELSE IF Hits(Urlparse(u).path_parts) = {} THEN None
    ELSE FoundId(Urlparse(u).path_parts)

\* What fetch_listing_data gives its caller.
NoRecord == PricesOf(0, [type |-> "", cost |-> 0], 0, 0) @@ [images |-> << >>]
Listed(rec) == [kind |-> "record", exc |-> "", rec |-> rec]
ListedNone == [kind |-> "None", exc |-> "", rec |-> NoRecord]
ListingRaised(exc) == [kind |-> "raise", exc |-> exc, rec |-> NoRecord]
NoOutcome == [kind |-> "-", exc |-> "", rec |-> NoRecord]

\* fetch_listing_data(ebay_url), given what get_item_details does for the item
\* id extract_item_id_from_url finds in the URL (None: none) and, when
\* that is a payload, the payload: the typed errors pass, any other exception
\* (of get_item_details or of the parsing) makes it return None.
\* A plausible slip: the API errors are caught with the rest.
FetchListingResult_CatchAll(input, rate) ==
    IF ExtractItemId(input.url) = None THEN ListedNone
    ELSE IF input.details.kind = "raise" THEN ListedNone
    ELSE IF input.details.value = "None" \/ input.payload.empty THEN ListedNone
    ELSE IF ParsingRaises(input.payload) THEN ListedNone
    ELSE Listed(ListingRecord(input.payload, rate))

FetchListingResult(input, rate) ==
    IF ExtractItemId(input.url) = None THEN ListedNone
    ELSE IF input.details.kind = "raise" THEN
        (IF input.details.value \in {"RateLimitError", "ItemNotFoundError",
                                     "UnauthorizedError", "APIError"}
         THEN ListingRaised(input.details.value) ELSE ListedNone)
    ELSE IF input.details.value = "None" \/ input.payload.empty THEN ListedNone
    ELSE IF ParsingRaises(input.payload) THEN ListedNone
    ELSE Listed(ListingRecord(input.payload, rate))

\* The payloads, the results of get_item_details and the SALES_TAX_RATE
\* settings that are explored.
Payload(price, options, optionType, optionCost, text, fieldCost, textCost, country, duty) ==
    [empty |-> FALSE, price |-> price, options |-> options, optionType |-> optionType,
     optionCost |-> optionCost, text |-> text, fieldCost |-> fieldCost,
     textCost |-> textCost, country |-> country, duty |-> duty,
     image |-> << >>, additionalImages |-> << >>,
     seller |-> "absent", returnTerms |-> "absent"]
PlainPayload == Payload(Absent, "none", "Unknown", Absent, NoText, 0, 0, "US", Absent)
EmptyPayload == [PlainPayload EXCEPT !.empty = TRUE]
ItemPrices == {Absent, Num(-500), Num(2000), Unparsable}
OptionCosts == {Absent, Num(0), Num(300), Unparsable}
OptionTypes == {"FREE", "FIXED", "Unknown", "NOT_SPECIFIED"}
Duties == {Absent, Num(0), Num(100), Unparsable}
Countries == {"US", "DE"}
Texts == {Text(ph, caps) : ph \in {"none", "free shipping", "free delivery"}, caps \in BOOLEAN}
FieldCosts == {-100, 0, 300}
TextCosts == {0, 400}
Payloads ==
    {Payload(pr, "first", ty, co, NoText, 0, 0, c, d) :
        pr \in ItemPrices, ty \in OptionTypes, co \in OptionCosts, c \in Countries, d \in Duties}
    \cup {Payload(pr, "none", "Unknown", Absent, NoText, fc, tc, c, d) :
            pr \in ItemPrices, fc \in FieldCosts, tc \in TextCosts,
            c \in Countries, d \in Duties}
    \cup {Payload(Num(2000), o, ty, co, tx, fc, tc, "US", Absent) :
            o \in {"first", "none"}, ty \in {"FREE", "FIXED"}, co \in {Absent, Num(300)},
            tx \in Texts, fc \in FieldCosts, tc \in TextCosts}
    \cup {EmptyPayload}
\* Payloads with images: a primary image (or none, or one of another shape)
\* and n additional ones, the one at position hole (0: none) without a URL.
MaxAdditional == 25
AdditionalImages(n, hole) ==
    [i \in 1..n |-> IF i = hole THEN (IF i = 1 THEN NoUrlEntry ELSE NoDictEntry)
                    ELSE ImageEntry(i)]
\* Payloads whose seller and returnTerms are absent, an object, or a string.
Shapes == {"absent", "object", "text"}
ShapePayloads ==
    {[Payload(pr, "none", "Unknown", Absent, NoText, 0, 0, "US", Absent)
        EXCEPT !.seller = se, !.returnTerms = rt] :
        pr \in {Num(2000), Unparsable}, se \in Shapes, rt \in Shapes}
ImagePayloads ==
    {[Payload(Num(2000), "none", "Unknown", Absent, NoText, 0, 0, "US", Absent)
        EXCEPT !.image = im, !.additionalImages = AdditionalImages(n, hole)] :
        im \in {<< >>, <<ImageEntry(0)>>, <<NoUrlEntry>>, <<NoDictEntry>>},
        n \in {0, 1, 2, ImageLimit - 1, ImageLimit, MaxAdditional},
        hole \in 0..2}
\* The URLs: every path of at most MaxSegments segments, on each host, with
\* and without a scheme.
MaxSegments == 3
Segments == {"itm", "title", "", "123", "456"}
Paths == UNION {[1..n -> Segments] : n \in 0..MaxSegments}
Hosts == VendorHosts \cup {"www.google.com"}
Urls ==
    {Url(sc, h, path, q) : sc \in BOOLEAN, h \in Hosts, path \in Paths, q \in BOOLEAN}
    \cup {MalformedUrl, NotAString}
ListingUrl == Url(TRUE, "www.ebay.com", <<"itm", "123">>, FALSE)
ListingInput(url, details, payload) ==
    [url |-> url, details |-> details, payload |-> payload]
ListingInputs ==
    {ListingInput(u, d, PlainPayload) :
        u \in Urls, d \in {Returned("payload", "123"), Raised("ItemNotFoundError")}}
    \cup {ListingInput(ListingUrl, d, PlainPayload) :
            d \in {ReturnedNone, Returned("summary", "")}
                  \cup {Raised(x) : x \in {"RateLimitError", "ItemNotFoundError",
                                           "UnauthorizedError", "APIError", "ValueError"}}}
    \cup {ListingInput(ListingUrl, Returned("payload", "123"), p) : p \in Payloads \cup ImagePayloads \cup ShapePayloads}
RateSettings == {Absent, Unparsable, Num(-10), Num(0), Num(10)}

NoListing == [state |-> "none", input |-> ListingInput(NotAString, NoResult, PlainPayload),
              setting |-> Absent, asked |-> None, result |-> NoOutcome]

\* client.fetch_listing_data(ebay_url); asked is the item id get_item_details
\* is called with (None: it is not called, and no request is sent).
FetchListingData ==
    /\ listing.state = "called"
    /\ listing' = [listing EXCEPT !.state = "done",
                      !.asked = ExtractItemId(listing.input.url),
                      !.result = FetchListingResult(listing.input,
                                                    SalesTaxRate(listing.setting))]
    /\ UNCHANGED <<env, _config, _token_managers, constructed, call, client, now, frames, gid,
                   race>>

----------------------------------------------------------------------------
(* auth.py: ensure_valid_token in two threads *)

\* Two threads of one process call ensure_valid_token() for the default
\* account. No statement of the call takes a lock: a thread's steps are its
\* I/O operations, and between two of them the other thread may run. A
\* caller that serializes the calls starts the second when the first is done.
Threads == {1, 2}
Account0 == ""
Thread(pc, current_token, refresh_token, token_data, result, sent) ==
    [pc |-> pc, current_token |-> current_token, refresh_token |-> refresh_token,
     token_data |-> token_data, result |-> result, sent |-> sent]
IdleThread == Thread("idle", None, None, EmptyDict, "-", None)
Done(th, result) == [th EXCEPT !.pc = "done", !.result = result]
\* A thread in get_config or get_token_manager: the operation, its suffix,
\* where the thread is in it, the instance it has constructed and the
\* identity of the instance it was returned.
Caller(op, suffix, pc, obj, ret) == [op |-> op, suffix |-> suffix, pc |-> pc, obj |-> obj, ret |-> ret]
IdleCaller == Caller("none", "", "idle", NoObj, NoObj)
NoRace ==
    [serialized |-> FALSE, accepted |-> {}, answers |-> {}, th |-> [t \in Threads |-> IdleThread],
     callers |-> [t \in Threads |-> IdleCaller]]
\* The answers of the token endpoint to the two threads: those of one call,
\* and one more pair of tokens, so that two answers can differ in both.
RaceTokenOutcomes ==
    TokenOutcomes
    \cup {TokenResp(200, TRUE, [k \in {"access_token", "refresh_token"} |->
                                    IF k = "access_token" THEN "a3" ELSE "r3"])}

\* The API accepts the access tokens the token endpoint issued and that have
\* not expired; the probe of an accepted token is answered 200, of another
\* one 401, or it fails in the transport.
ProbeAnswers(accepted, token) ==
    {Resp(IF token \in accepted THEN 200 ELSE 401)} \cup {Exc(x) : x \in TransportErrors}
\* The access token a response of the token endpoint carries, if any: the
\* endpoint has issued it.
Issued(out) ==
    IF out.kind = "response" /\ out.json /\ "access_token" \in DOMAIN out.data
    THEN {out.data["access_token"]} ELSE {}

\* The caller's discipline: a serialized second call waits for the first.
MayStart(t) ==
    race.serialized => \A u \in Threads : u < t => race.th[u].pc = "done"

\* current_token = self.get_current_token(); if not current_token: return False
GetCurrentToken(t) ==
    /\ race.th[t].pc = "idle"
    /\ MayStart(t)
    /\ \E tok \in {Getenv(env, _key("EBAY_USER_TOKEN", Account0))} :
         race' = [race EXCEPT !.th[t] =
                    IF ~Truthy(tok) THEN Done(@, "False")
                    ELSE [@ EXCEPT !.pc = "probe", !.current_token = tok]]
    /\ UNCHANGED <<env, _config, _token_managers, constructed, call, client, now, frames, gid,
                   listing>>

\* is_valid, error = self.test_token_validity(current_token); if is_valid: return True
TestToken(t) ==
    /\ race.th[t].pc = "probe"
    /\ \E out \in ProbeAnswers(race.accepted, race.th[t].current_token) :
         race' = [race EXCEPT !.th[t] =
                    IF TestTokenValidity(out) = "valid" THEN Done(@, "True")
                    ELSE IF TestTokenValidity(out) = "raised" THEN Done(@, "Raised")
                    ELSE [@ EXCEPT !.pc = "refresh_token"]]
    /\ UNCHANGED <<env, _config, _token_managers, constructed, call, client, now, frames, gid,
                   listing>>

\* refresh_token = self.get_refresh_token(); if not refresh_token: return False
GetRefreshToken(t) ==
    /\ race.th[t].pc = "refresh_token"
    /\ \E rt \in {Getenv(env, _key("EBAY_REFRESH_TOKEN", Account0))} :
         race' = [race EXCEPT !.th[t] =
                    IF ~Truthy(rt) THEN Done(@, "False")
                    ELSE [@ EXCEPT !.pc = "post", !.refresh_token = rt]]
    /\ UNCHANGED <<env, _config, _token_managers, constructed, call, client, now, frames, gid,
                   listing>>

\* token_data = self.refresh_access_token(refresh_token);
\* if not token_data: return False
RefreshToken(t) ==
    /\ race.th[t].pc = "post"
    /\ \E out \in RaceTokenOutcomes :
       \E res \in {RefreshAccessToken(_token_managers[Account0].config, out)} :
         race' = [race EXCEPT
                    !.accepted = IF res.sent THEN @ \cup Issued(out) ELSE @,
                    !.answers = IF res.ok /\ res.data # EmptyDict THEN @ \cup {res.data} ELSE @,
                    !.th[t] =
                      IF ~res.ok \/ res.data = EmptyDict
                      THEN Done([@ EXCEPT !.sent = IF res.sent THEN race.th[t].refresh_token
                                                   ELSE None],
                                "False")
                      ELSE [@ EXCEPT !.pc = "save", !.token_data = res.data,
                                     !.sent = race.th[t].refresh_token]]
    /\ UNCHANGED <<env, _config, _token_managers, constructed, call, client, now, frames, gid,
                   listing>>

\* save_tokens writes the two keys one after the other, each with its own
\* set_key: another thread may run between the two writes.
\* The part of a response that one set_key stores.
Restrict(data, field) == [k \in DOMAIN data \cap {field} |-> data[k]]

\* save_tokens(token_data), up to and including the write of the access token
SaveAccessToken(t) ==
    /\ race.th[t].pc = "save"
    /\ \E fault \in {f \in {"none", "EBAY_USER_TOKEN"} :
                        f = "none" \/ TokenField(f) \in DOMAIN race.th[t].token_data} :
       \E saved \in {SaveTokens(env, Account0,
                                Restrict(race.th[t].token_data, "access_token"), fault)} :
         /\ env' = saved.env
         /\ race' = [race EXCEPT !.th[t] = IF saved.ok THEN [@ EXCEPT !.pc = "save_refresh"]
                                           ELSE Done(@, "False")]
    /\ UNCHANGED <<_config, _token_managers, constructed, call, client, now, frames, gid,
                   listing>>

\* the rest of save_tokens, the write of the refresh token, and
\* if self.save_tokens(token_data): return True; return False
SaveRefreshToken(t) ==
    /\ race.th[t].pc = "save_refresh"
    /\ \E fault \in {f \in {"none", "EBAY_REFRESH_TOKEN"} :
                        f = "none" \/ TokenField(f) \in DOMAIN race.th[t].token_data} :
       \E saved \in {SaveTokens(env, Account0,
                                Restrict(race.th[t].token_data, "refresh_token"), fault)} :
         /\ env' = saved.env
         /\ race' = [race EXCEPT !.th[t] = Done(@, IF saved.ok THEN "True" ELSE "False")]
    /\ UNCHANGED <<_config, _token_managers, constructed, call, client, now, frames, gid,
                   listing>>

\* The client specification: a client made for a provisioned default account,
\* whose token the probe found valid.
ProvisionedAccount == Account("app", "secret", "a1", "r1")
ClientMade ==
    \E c \in {NewClientResult(StoreOf([s \in Suffixes |-> ProvisionedAccount]),
                               EmptyRegistry, EmptyRegistry,
                               [x \in Classes \X Suffixes |-> 0], 0, DefaultProbe, DefaultTok,
                               "none")} :
       /\ env = c.env
       /\ _config = c.cfgs
       /\ _token_managers = c.tms
       /\ constructed = c.made
       /\ client = c.client
       /\ call = NoCall
       /\ frames = << >>
       /\ gid = IdleGid
InitClient ==
    /\ ClientMade
    /\ now \in StartInstants
    /\ listing = NoListing
    /\ race = NoRace

NextClient ==
    \/ \E item \in Items : \E n \in RetryCounts :
            GetItemDetails(item, n) /\ UNCHANGED <<listing, race>>
    \/ \E out \in DetailOutcomes : DetailResponse(out) /\ UNCHANGED <<listing, race>>
    \/ \E out \in SearchOutcomes : SearchResponse(out) /\ UNCHANGED <<listing, race>>
    \/ ClientReturn /\ UNCHANGED <<listing, race>>

SpecClient == InitClient /\ [][NextClient]_vars

\* The listing specification: the client is given a URL, with what the URL,
\* the API and the configuration hold for it.
InitListing ==
    /\ ClientMade
    /\ now = 0
    /\ \E i \in ListingInputs : \E r \in RateSettings :
         listing = [state |-> "called", input |-> i, setting |-> r, asked |-> None,
                    result |-> NoOutcome]
    /\ race = NoRace

NextListing == FetchListingData

SpecListing == InitListing /\ [][NextListing]_vars

\* The race specification: the default account is provisioned and its manager
\* made, its access token has expired, and two threads call
\* ensure_valid_token, serialized by their caller or not.
InitRace ==
    /\ ClientMade
    /\ now = 0
    /\ listing = NoListing
    /\ \E serialized \in BOOLEAN : race = [NoRace EXCEPT !.serialized = serialized]

NextRace ==
    \/ \E t \in Threads : GetCurrentToken(t)
    \/ \E t \in Threads : TestToken(t)
    \/ \E t \in Threads : GetRefreshToken(t)
    \/ \E t \in Threads : RefreshToken(t)
    \/ \E t \in Threads : SaveAccessToken(t)
    \/ \E t \in Threads : SaveRefreshToken(t)

SpecRace == InitRace /\ [][NextRace]_vars

\* The account specification: code acting for account `suffix` constructs the
\* client.  eBayClient() takes no suffix: it reads the configuration and the
\* manager of the default account and the key EBAY_USER_TOKEN, whichever
\* account its caller acts for.
SecondAccount == Account("app", "secret", "b1", "q1")
NewClient(suffix) ==
    /\ call = NoCall
    /\ \E c \in {GetConfigResult(env, _config, constructed, "")} :
       \E cfg \in {GetTokenManagerResult(env, c.cfgs, _token_managers, c.made,
                                         "").ret.config} :
       \E probeOut \in ProbeInputs(env, cfg, "") :
       \E tokOut \in TokenInputs(env, cfg, "", probeOut) :
       \E fault \in FaultInputs(env, cfg, "", probeOut, tokOut) :
       \E r \in {NewClientWith(c, env, _token_managers, now, probeOut, tokOut, fault)} :
          /\ env' = r.env
          /\ _config' = r.cfgs
          /\ _token_managers' = r.tms
          /\ constructed' = r.made
          /\ client' = r.client
          /\ call' = [r.ensure EXCEPT
                        !.op = "eBayClient", !.suffix = suffix,
                        !.result = IF r.raised THEN "ValueError" ELSE "None",
                        !.reads = c.reads \cup @
                                  \cup (IF r.ensure.result = "True"
                                        THEN {"EBAY_USER_TOKEN"} ELSE {})]
    /\ UNCHANGED <<now, frames, gid, listing, race>>

InitAccounts ==
    /\ \E d \in InitialAccounts :
         env = StoreOf([s \in Suffixes |-> IF s = "" THEN d ELSE SecondAccount])
    /\ _config = EmptyRegistry
    /\ _token_managers = EmptyRegistry
    /\ constructed = [c \in Classes \X Suffixes |-> 0]
    /\ call = NoCall
    /\ client = NoClient /\ now = 0 /\ frames = << >> /\ gid = IdleGid
    /\ listing = NoListing
    /\ race = NoRace

NextAccounts ==
    \/ \E s \in Suffixes : NewClient(s)
    \/ Return /\ UNCHANGED clientVars

SpecAccounts == InitAccounts /\ [][NextAccounts]_vars

\* The shared-store specification: the client is made, and another caller of
\* the same process or another process refreshes the default account through
\* ensure_valid_token between the client's calls.
InitStale ==
    /\ ClientMade
    /\ now = 0
    /\ listing = NoListing
    /\ race = NoRace

NextStale ==
    \/ gid.state = "idle" /\ EnsureValidTokenCall(Account0) /\ UNCHANGED clientVars
    \/ Return /\ UNCHANGED clientVars
    \/ \E item \in Items : GetItemDetails(item, 1) /\ UNCHANGED <<listing, race>>
    \/ \E out \in DetailOutcomes : DetailResponse(out) /\ UNCHANGED <<listing, race>>
    \/ \E out \in SearchOutcomes : SearchResponse(out) /\ UNCHANGED <<listing, race>>
    \/ ClientReturn /\ UNCHANGED <<listing, race>>

SpecStale == InitStale /\ [][NextStale]_vars

----------------------------------------------------------------------------
(* config.py, auth.py: get_config and get_token_manager in two threads *)

RegistryOps == {"get_config", "get_token_manager"}
\* The registry an operation tests, fills and returns from.
RegistryOf(op) == IF op = "get_config" THEN _config ELSE _token_managers

\* A thread calls get_config(suffix) or get_token_manager(suffix).
BeginCall(t, op, suffix) ==
    /\ race.callers[t].pc \in {"idle", "done"}
    /\ race' = [race EXCEPT !.callers[t] = Caller(op, suffix, "check", NoObj, NoObj)]
    /\ UNCHANGED <<env, _config, _token_managers, constructed, call, client, now, frames, gid,
                   listing>>

\* if suffix not in _config: / if suffix not in _token_managers:
CheckRegistry(t) ==
    /\ race.callers[t].pc = "check"
    /\ race' = [race EXCEPT !.callers[t].pc =
                  IF RegistryHas(RegistryOf(race.callers[t].op), race.callers[t].suffix)
                  THEN "return" ELSE "construct"]
    /\ UNCHANGED <<env, _config, _token_managers, constructed, call, client, now, frames, gid,
                   listing>>

\* Config(suffix) / TokenManager(suffix), whose __init__ calls
\* get_config(suffix) and looks for the .env file: the right-hand side of the
\* assignment, evaluated before the registry is written.
ConstructInstance(t) ==
    /\ race.callers[t].pc = "construct"
    /\ LET c == race.callers[t]
       IN IF c.op = "get_config"
          THEN /\ race' = [race EXCEPT !.callers[t].pc = "store",
                                       !.callers[t].obj = NewConfig(env, c.suffix, constructed)]
               /\ constructed' = Construct(constructed, "Config", c.suffix)
               /\ UNCHANGED _config
          ELSE \E g \in {GetConfigResult(env, _config, constructed, c.suffix)} :
               /\ race' = [race EXCEPT
                             !.callers[t].pc = "store",
                             !.callers[t].obj =
                                [id |-> ObjId("TokenManager", c.suffix,
                                              constructed[<<"TokenManager", c.suffix>>] + 1),
                                 suffix |-> c.suffix, config |-> g.ret]]
               /\ constructed' = Construct(g.made, "TokenManager", c.suffix)
               /\ _config' = g.cfgs
    /\ UNCHANGED <<env, _token_managers, call, client, now, frames, gid, listing>>

\* _config[suffix] = ... / _token_managers[suffix] = ...
StoreInstance(t) ==
    /\ race.callers[t].pc = "store"
    /\ LET c == race.callers[t]
       IN IF c.op = "get_config"
          THEN /\ _config' = DictSet(_config, c.suffix, c.obj)
               /\ UNCHANGED _token_managers
          ELSE /\ _token_managers' = DictSet(_token_managers, c.suffix, c.obj)
               /\ UNCHANGED _config
    /\ race' = [race EXCEPT !.callers[t].pc = "return"]
    /\ UNCHANGED <<env, constructed, call, client, now, frames, gid, listing>>

\* return _config[suffix] / return _token_managers[suffix]
ReturnInstance(t) ==
    /\ race.callers[t].pc = "return"
    /\ race' = [race EXCEPT
                  !.callers[t].pc = "done",
                  !.callers[t].ret = RegistryOf(race.callers[t].op)[race.callers[t].suffix].id]
    /\ UNCHANGED <<env, _config, _token_managers, constructed, call, client, now, frames, gid,
                   listing>>

\* The registry specification: the process has just started, no instance
\* exists, and two threads call get_config and get_token_manager.
InitRegistry ==
    /\ env = StoreOf([s \in Suffixes |-> ProvisionedAccount])
    /\ _config = EmptyRegistry
    /\ _token_managers = EmptyRegistry
    /\ constructed = [c \in Classes \X Suffixes |-> 0]
    /\ call = NoCall
    /\ client = NoClient /\ now = 0 /\ frames = << >> /\ gid = IdleGid
    /\ listing = NoListing
    /\ race = NoRace

NextRegistry ==
    \/ \E t \in Threads : \E op \in RegistryOps : \E s \in Suffixes : BeginCall(t, op, s)
    \/ \E t \in Threads : CheckRegistry(t)
    \/ \E t \in Threads : ConstructInstance(t)
    \/ \E t \in Threads : StoreInstance(t)
    \/ \E t \in Threads : ReturnInstance(t)

SpecRegistry == InitRegistry /\ [][NextRegistry]_vars

----------------------------------------------------------------------------
(* The token specification: the operations of config.py and auth.py *)

Init ==
    /\ InitAuth
    /\ client = NoClient /\ now = 0 /\ frames = << >> /\ gid = IdleGid
    /\ listing = NoListing
    /\ race = NoRace

Next ==
    \/ \E s \in Suffixes : GetConfig(s) /\ UNCHANGED clientVars
    \/ \E s \in Suffixes : ConfigValidate(s) /\ UNCHANGED clientVars
    \/ \E s \in Suffixes : GetTokenManager(s) /\ UNCHANGED clientVars
    \/ \E s \in Suffixes : EnsureValidTokenCall(s) /\ UNCHANGED clientVars
    \/ Return /\ UNCHANGED clientVars

Spec == Init /\ [][Next]_vars

----------------------------------------------------------------------------
(* Reading a finished ensure_valid_token call *)

IsEnsure(c) == c.op = "ensure_valid_token"
Probed(c) == IsEnsure(c) /\ Did(c.events, "probe")
ProbeOut(c) == c.events[1].out
\* The probe was answered 401.
Probed401(c) == Probed(c) /\ ProbeOut(c).kind = "response" /\ ProbeOut(c).status = 401
\* The probe passed: an answer other than 401, or no answer at all.
ProbePassed(c) == Probed(c) /\ ~Probed401(c)
EventsOf(c, ev) == {i \in DOMAIN c.events : c.events[i].ev = ev}
EventNames(c) == [i \in DOMAIN c.events |-> c.events[i].ev]
TheEvent(c, ev) == c.events[CHOOSE i \in EventsOf(c, ev) : TRUE]
UserTokenKey(suffix) == IF suffix = "" THEN "EBAY_USER_TOKEN" ELSE "EBAY_USER_TOKEN_" \o suffix
RefreshTokenKey(suffix) == IF suffix = "" THEN "EBAY_REFRESH_TOKEN" ELSE "EBAY_REFRESH_TOKEN_" \o suffix
\* The Config of the account the call acted for has both app credentials.
Configured(c) ==
    /\ c.suffix \in DOMAIN _config
    /\ Truthy(_config[c.suffix].ebay_app_id)
    /\ Truthy(_config[c.suffix].ebay_client_secret)

----------------------------------------------------------------------------
(* C1 *)

\* C1: when the stored access token passes the validity probe,
\* ensure_valid_token returns True, sends no token-endpoint request (it does
\* not even call refresh_access_token) and writes nothing to the store: the
\* store after the call is the store before it. This holds of every such call,
\* so of the second of two in a row.
C1_ValidCallState ==
    ProbePassed(call) =>
        /\ call.result = "True"
        /\ EventNames(call) = <<"probe">>
        /\ call.writes = {}
C1_ValidCallStep == ProbePassed(call') => env' = env
C1_ValidTokenNoRefresh == [](C1_ValidCallState) /\ [][C1_ValidCallStep]_vars

C1_Witness ==
    /\ ProbePassed(call) /\ call.suffix = "2" /\ call.result = "True"
    /\ ProbeOut(call).status = 404

----------------------------------------------------------------------------
(* C2 *)

C2_RefreshPathState ==
    (Probed401(call) /\ Did(call.events, "refresh")) =>
        /\ Cardinality(EventsOf(call, "refresh")) = 1
        /\ Cardinality(EventsOf(call, "post")) = (IF Configured(call) THEN 1 ELSE 0)
        /\ \A i \in EventsOf(call, "post") : call.events[i].rt = TheEvent(call, "refresh").rt
        /\ (~Configured(call) => call.result = "False")
        /\ (call.result = "True" =>
               /\ EventNames(call) = <<"probe", "refresh", "post", "save">>
               /\ call.events[4].ok
               /\ call.events[4].data = call.events[3].data)
C2_RefreshPathStep ==
    LET s == call'.suffix
        stored == Getenv(env, RefreshTokenKey(s))
    IN Probed401(call') =>
          /\ Truthy(stored) <=> Did(call'.events, "refresh")
          /\ Did(call'.events, "refresh") => TheEvent(call', "refresh").rt = stored
----------------------------------------------------------------------------
(* C3 *)

\* C3: ensure_valid_token never raises and returns False on every failure
\* path: no stored access token (nothing is probed or requested), a 401 probe
\* with no stored refresh token (no token-endpoint request), or
\* refresh_access_token giving no token data; it returns True only when the
\* probe passed or when the refresh gave token data and save_tokens succeeded.
C3_FailurePathsState ==
    IsEnsure(call) =>
        /\ call.result \in {"True", "False"}
        /\ (\A i \in EventsOf(call, "refresh") :
               (~call.events[i].ok \/ call.events[i].data = EmptyDict) =>
                   call.result = "False" /\ ~Did(call.events, "save"))
        /\ (\A i \in EventsOf(call, "save") : ~call.events[i].ok => call.result = "False")
        /\ (call.result = "True" =>
               \/ ProbePassed(call) /\ Len(call.events) = 1
               \/ /\ Probed401(call)
                  /\ \E i \in EventsOf(call, "refresh") : call.events[i].ok
                  /\ \E i \in EventsOf(call, "save") : call.events[i].ok /\ i = Len(call.events))
C3_FailurePathsStep ==
    LET s == call'.suffix
    IN IsEnsure(call') =>
          /\ ~Truthy(Getenv(env, UserTokenKey(s))) =>
                 call'.result = "False" /\ call'.events = << >> /\ env' = env
          /\ (Probed401(call') /\ ~Truthy(Getenv(env, RefreshTokenKey(s)))) =>
                 /\ call'.result = "False"
                 /\ EventNames(call') = <<"probe">>
                 /\ env' = env
C3_FailurePaths == [](C3_FailurePathsState) /\ [][C3_FailurePathsStep]_vars

C3_Witness ==
    /\ Probed401(call) /\ call.result = "False"
    /\ Did(call.events, "post") /\ TheEvent(call, "post").kind = "Timeout"

----------------------------------------------------------------------------
(* C4 *)

\* C4 as stated: after a refresh that ensure_valid_token reports successful,
\* both stored tokens equal the values of the token-endpoint response.
C4_BothTokensOverwritten ==
    (IsEnsure(call) /\ call.result = "True" /\ Did(call.events, "post")) =>
        LET data == TheEvent(call, "post").data
        IN /\ "access_token" \in DOMAIN data
           /\ Getenv(env, UserTokenKey(call.suffix)) = data["access_token"]
           /\ "refresh_token" \in DOMAIN data
           /\ Getenv(env, RefreshTokenKey(call.suffix)) = data["refresh_token"]

\* C4 amended: after a refresh that ensure_valid_token reports successful,
\* each stored token equals the value the token-endpoint response carries for
\* it, and a token for which the response carries no value keeps the value it
\* had before the call.
C4_OverwriteState ==
    (IsEnsure(call) /\ call.result = "True" /\ Did(call.events, "post")) =>
        LET data == TheEvent(call, "post").data
        IN /\ "access_token" \in DOMAIN data =>
                  Getenv(env, UserTokenKey(call.suffix)) = data["access_token"]
           /\ "refresh_token" \in DOMAIN data =>
                  Getenv(env, RefreshTokenKey(call.suffix)) = data["refresh_token"]
C4_OverwriteStep ==
    (IsEnsure(call') /\ call'.result = "True" /\ Did(call'.events, "post")) =>
        LET data == TheEvent(call', "post").data
            s == call'.suffix
        IN /\ "access_token" \notin DOMAIN data =>
                  Getenv(env', UserTokenKey(s)) = Getenv(env, UserTokenKey(s))
           /\ "refresh_token" \notin DOMAIN data =>
                  Getenv(env', RefreshTokenKey(s)) = Getenv(env, RefreshTokenKey(s))
C4_PresentTokensOverwritten == [](C4_OverwriteState) /\ [][C4_OverwriteStep]_vars

C4_Witness ==
    /\ IsEnsure(call) /\ call.result = "True" /\ Did(call.events, "post")
    /\ DOMAIN TheEvent(call, "post").data = {"access_token"}
    /\ Getenv(env, UserTokenKey(call.suffix)) = "a2"
    /\ Getenv(env, RefreshTokenKey(call.suffix)) = "r1"

----------------------------------------------------------------------------
(* C5 *)

\* C5: the probe reports the token invalid exactly when it is answered 401:
\* after any other status, a timeout or a connection error the call returns
\* True having made no refresh, and after a 401 it does not.
C5_InvalidIff401 ==
    Probed(call) =>
        LET out == ProbeOut(call)
            treatedValid == call.result = "True" /\ EventNames(call) = <<"probe">>
        IN (out.kind = "response" /\ out.status = 401) <=> ~treatedValid

C5_Witness ==
    /\ Probed(call) /\ ProbeOut(call).kind = "ConnectionError"
    /\ call.result = "True" /\ ~Did(call.events, "refresh")

----------------------------------------------------------------------------
(* C6 *)

\* C6: refresh_access_token gives no token data for every non-2xx status and
\* every transport exception, and, without sending a request, when the app id
\* or client secret is unset; it gives the response data only on a 2xx answer.
C6_NoDataUnless2xx ==
    \A i \in EventsOf(call, "refresh") :
        LET r == call.events[i]
        IN /\ ~Configured(call) => ~r.ok /\ ~Did(call.events, "post")
           /\ r.ok =>
                 /\ Did(call.events, "post")
                 /\ TheEvent(call, "post").kind = "response"
                 /\ TheEvent(call, "post").status \in 200..299
                 /\ r.data = TheEvent(call, "post").data

----------------------------------------------------------------------------
(* C7 *)

\* The credential keys of an account, as the store names them.
AccountKeys(suffix) ==
    IF suffix = "" THEN {"EBAY_APP_ID", "EBAY_CLIENT_SECRET", "EBAY_USER_TOKEN", "EBAY_REFRESH_TOKEN"}
    ELSE {"EBAY_APP_ID_" \o suffix, "EBAY_CLIENT_SECRET_" \o suffix,
          "EBAY_USER_TOKEN_" \o suffix, "EBAY_REFRESH_TOKEN_" \o suffix}

\* C7: an operation on account A reads and writes only A's keys (BASE for the
\* default account, BASE_A otherwise) and leaves the stored access and refresh
\* token of every other account B unchanged.
C7_OwnKeysOnly ==
    call.op # "none" =>
        /\ call.reads \subseteq AccountKeys(call.suffix)
        /\ call.writes \subseteq AccountKeys(call.suffix)
C7_OthersUnchanged ==
    call'.op # "none" =>
        \A b \in Suffixes \ {call'.suffix} :
            /\ Getenv(env', UserTokenKey(b)) = Getenv(env, UserTokenKey(b))
            /\ Getenv(env', RefreshTokenKey(b)) = Getenv(env, RefreshTokenKey(b))
C7_NoCrossContamination == [](C7_OwnKeysOnly) /\ [][C7_OthersUnchanged]_vars

C7_Witness ==
    /\ IsEnsure(call) /\ call.suffix = "2"
    /\ call.writes = {"EBAY_USER_TOKEN_2", "EBAY_REFRESH_TOKEN_2"}
    /\ Getenv(env, "EBAY_USER_TOKEN") = "a1" /\ Getenv(env, "EBAY_USER_TOKEN_2") = "a2"

----------------------------------------------------------------------------
(* C8 *)

\* C8: each registry (get_token_manager, get_config) holds at most one
\* instance per suffix, the one constructed by the first call for that suffix:
\* every call returns the registered instance of its suffix, an instance is
\* constructed only when the suffix had none, and no entry is ever removed or
\* replaced.
C8_OnePerSuffixState ==
    /\ \A s \in DOMAIN _config : _config[s].suffix = s /\ _config[s].id.serial = 1
    /\ \A s \in DOMAIN _token_managers :
          /\ _token_managers[s].suffix = s /\ _token_managers[s].id.serial = 1
          /\ s \in DOMAIN _config /\ _token_managers[s].config = _config[s]
    /\ \A c \in Classes, s \in Suffixes : constructed[<<c, s>>] <= 1
    /\ call.op = "get_config" => call.ret = _config[call.suffix].id
    /\ call.op \in {"get_token_manager", "ensure_valid_token"} =>
          call.ret = _token_managers[call.suffix].id
C8_OnePerSuffixStep ==
    /\ \A s \in DOMAIN _config : s \in DOMAIN _config' /\ _config'[s] = _config[s]
    /\ \A s \in DOMAIN _token_managers :
          s \in DOMAIN _token_managers' /\ _token_managers'[s] = _token_managers[s]
    /\ \A s \in (DOMAIN _config') \ (DOMAIN _config) : call'.suffix = s
    /\ \A s \in (DOMAIN _token_managers') \ (DOMAIN _token_managers) :
          call'.suffix = s /\ call'.op \in {"get_token_manager", "ensure_valid_token"}
C8_RegistrySingleton == [](C8_OnePerSuffixState) /\ [][C8_OnePerSuffixStep]_vars

C8_Witness ==
    /\ call.op = "get_token_manager" /\ call.suffix = "2" /\ call.reads = {}
    /\ DOMAIN _token_managers = {"", "2"}
    /\ _token_managers[""].id # _token_managers["2"].id

----------------------------------------------------------------------------
(* Reading the log of a get_item_details call *)

\* The invocations of one top-level call are told apart by their depth: the
\* call itself is at depth 1, the call made for an item group's member one deeper.
Depths == 1..MaxRequests
\* What invocation d did, in order: its detail requests, its sleeps, its end.
Own(d) == SelectSeq(gid.log, LAMBDA e : e.depth = d /\ e.ev \in {"detail", "sleep", "end"})
DetailRequests(d) == SelectSeq(gid.log, LAMBDA e : e.depth = d /\ e.ev = "detail")
Ended(d) == \E i \in DOMAIN gid.log : gid.log[i].depth = d /\ gid.log[i].ev = "end"
\* max_retries of invocation d: the caller's, or the default of the recursive call
MaxRetriesOf(d) == IF d = 1 THEN gid.max_retries ELSE DefaultMaxRetries
View(e) == <<e.ev, e.attempt, e.status, e.secs, e.kind, e.value>>
IsPrefix(a, b) == Len(a) <= Len(b) /\ \A i \in DOMAIN a : a[i] = b[i]
Is429(e) == e.kind = "response" /\ e.status = 429
FailedTransiently(e) ==
    \/ e.kind = "response" /\ e.status >= 500
    \/ e.kind \in {"Timeout", "ConnectionError"}

\* The run the claim describes for max_retries = n when every response is 429:
\* request k (from 0) answered 429, a sleep of 2^k * 2 seconds after every
\* request but the last, and RateLimitError in the end.
RateLimitedRun(n) ==
    [j \in 1..(2 * n) |->
        LET k == (j - 1) \div 2
        IN IF j = 2 * n THEN <<"end", 0, 0, 0, "raise", "RateLimitError">>
           ELSE IF j % 2 = 1 THEN <<"detail", k, 429, 0, "response", "">>
           ELSE <<"sleep", k, 0, Pow2(k) * 2, "", "">>]
\* The run of a 429 followed by a 200 with a payload.
RetriedOnceRun ==
    << <<"detail", 0, 429, 0, "response", "">>, <<"sleep", 0, 0, 2, "", "">>,
       <<"detail", 1, 200, 0, "response", "">>, <<"end", 0, 0, 0, "return", "payload">> >>

\* C9: in every invocation of get_item_details with max_retries = n >= 1 whose
\* responses so far are all 429, what the invocation did is the beginning of:
\* n requests with a sleep of 2^k * 2 seconds after request k < n - 1, then
\* RateLimitError; it is the whole of it once n requests are made.  And when
\* the responses are a 429 and then a 200 with a payload, the invocation made
\* one retry after one sleep of 2 seconds and has returned the payload.
C9_RateLimitRetryExact ==
    \A d \in Depths :
        LET reqs == DetailRequests(d)
            n == MaxRetriesOf(d)
            own == [i \in DOMAIN Own(d) |-> View(Own(d)[i])]
        IN /\ (reqs # << >> /\ \A i \in DOMAIN reqs : Is429(reqs[i]))
                => /\ n >= 1
                   /\ Len(reqs) <= n
                   /\ IsPrefix(own, RateLimitedRun(n))
                   /\ Len(reqs) = n => own = RateLimitedRun(n)
                   /\ Ended(d) => own = RateLimitedRun(n)
           /\ (Len(reqs) = 2 /\ Is429(reqs[1]) /\ reqs[2].kind = "response"
                /\ reqs[2].status = 200 /\ reqs[2].json)
                => own = RetriedOnceRun

\* Three 429 answers to a call with max_retries = 3 have ended it.
C9_Witness ==
    /\ gid.state = "done" /\ gid.max_retries = 3
    /\ Len(DetailRequests(1)) = 3
    /\ \A i \in 1..3 : Is429(DetailRequests(1)[i])
    /\ gid.res = Raised("RateLimitError")

\* C10: a 5xx response, a timeout or a connection error at attempt k < max_retries - 1
\* is followed at once by a sleep of 2^k seconds, after which the invocation
\* is about to make request k + 1, and what it does next is that request; an invocation all of whose requests failed this way
\* has ended exactly when it has made max_retries requests, and then with APIError.
C10_ServerErrorRetry ==
    /\ \A i \in DOMAIN gid.log :
        LET e == gid.log[i]
            k == e.attempt
        IN (e.ev = "detail" /\ FailedTransiently(e) /\ k < MaxRetriesOf(e.depth) - 1)
            => /\ i + 1 \in DOMAIN gid.log
               /\ View(gid.log[i + 1]) = <<"sleep", k, 0, Pow2(k), "", "">>
               /\ gid.log[i + 1].depth = e.depth
               /\ i + 2 \notin DOMAIN gid.log
                    => /\ gid.state = "running" /\ Len(frames) = e.depth
                       /\ frames[e.depth].stage = "detail"
                       /\ frames[e.depth].attempt = k + 1
               /\ i + 2 \in DOMAIN gid.log
                    => /\ gid.log[i + 2].ev = "detail"
                       /\ gid.log[i + 2].depth = e.depth
                       /\ gid.log[i + 2].item = e.item
                       /\ gid.log[i + 2].attempt = k + 1
    /\ \A d \in Depths :
        LET reqs == DetailRequests(d)
            n == MaxRetriesOf(d)
            own == Own(d)
        IN (reqs # << >> /\ \A i \in DOMAIN reqs : FailedTransiently(reqs[i]))
            => /\ Len(reqs) <= n
               /\ Ended(d) <=> Len(reqs) = n
               /\ Ended(d) => /\ own[Len(own)].ev = "end"
                              /\ own[Len(own)].kind = "raise"
                              /\ own[Len(own)].value = "APIError"
                              /\ Len(own) = 2 * n

\* A 500, a timeout and a connection error, in some order, have ended a call
\* with max_retries = 3.
C10_Witness ==
    /\ gid.state = "done" /\ gid.max_retries = 3
    /\ Len(DetailRequests(1)) = 3
    /\ \A i \in 1..3 : FailedTransiently(DetailRequests(1)[i])
    /\ \E i \in 1..3 : DetailRequests(1)[i].kind = "Timeout"
    /\ \E i \in 1..3 : DetailRequests(1)[i].kind = "ConnectionError"
    /\ \E i \in 1..3 : DetailRequests(1)[i].kind = "response"
    /\ gid.res = Raised("APIError")

----------------------------------------------------------------------------
(* C11 *)

IsClientError(e) == e.kind = "response" /\ 400 <= e.status /\ e.status < 500
IsItemGroupAnswer(e) ==
    e.kind = "response" /\ e.status = 400 /\ e.out.json /\ e.out.errorsOk
    /\ ItemGroupErrorId \in e.out.errorIds
\* The i-th entry of the log is the last thing its invocation did but for its
\* end, which is the next entry and is the raising of `exc`.
EndsAtOnce(i, exc) ==
    LET e == gid.log[i]
    IN /\ i + 1 \in DOMAIN gid.log
       /\ gid.log[i + 1].ev = "end" /\ gid.log[i + 1].depth = e.depth
       /\ gid.log[i + 1].kind = "raise" /\ gid.log[i + 1].value = exc
       /\ \A j \in DOMAIN gid.log :
            (j > i + 1 /\ gid.log[j].depth = e.depth) => gid.log[j].ev = "end"

\* C11: a 401 answer to a detail request ends the invocation at once with
\* UnauthorizedError, a 404 with ItemNotFoundError, and any other 4xx but 429
\* and the 400 of an item group with an APIError whose message has the status
\* code and the first characters of the body, 100 at most; the invocation
\* sends no further request and does not sleep.
C11_ClientErrorsFailAtOnce ==
    \A i \in DOMAIN gid.log :
        LET e == gid.log[i]
        IN (e.ev = "detail" /\ IsClientError(e) /\ e.status # 429 /\ ~IsItemGroupAnswer(e))
            => IF e.status = 401 THEN EndsAtOnce(i, "UnauthorizedError")
               ELSE IF e.status = 404 THEN EndsAtOnce(i, "ItemNotFoundError")
               ELSE /\ EndsAtOnce(i, "APIError")
                    /\ gid.log[i + 1].res.status = e.status
                    /\ gid.log[i + 1].res.chars <= TruncateAt
                    /\ gid.log[i + 1].res.chars <= e.out.text
                    /\ gid.log[i + 1].res.chars \in {TruncateAt, e.out.text}

----------------------------------------------------------------------------
(* C12 *)

IsPayload(e) == e.kind = "response" /\ e.status = 200 /\ e.out.json
NamesMember(e) ==
    e.kind = "response" /\ e.status = 200 /\ e.out.json /\ e.out.summaries = "legacy"
SearchesAt(d) == {j \in DOMAIN gid.log : gid.log[j].ev = "search" /\ gid.log[j].depth = d}

\* C12: a 400 answer with errorId 11006 to the detail request for X does not
\* end the invocation: what it does next is one search for the group X, the
\* only one it makes; when the first summary names a member, what follows is a
\* detail request for that member by a nested invocation, and when that is
\* answered with a payload both invocations return it at once: detail, search,
\* detail, and no sleep between them.
C12_ItemGroupRedirect ==
    \A i \in DOMAIN gid.log :
        LET e == gid.log[i]
            L == gid.log
        IN (e.ev = "detail" /\ IsItemGroupAnswer(e))
            => /\ i = Len(L) => /\ gid.state = "running" /\ Len(frames) = e.depth
                                /\ frames[e.depth].stage = "search"
               /\ i + 1 \in DOMAIN L
                    => /\ L[i + 1].ev = "search" /\ L[i + 1].depth = e.depth
                       /\ L[i + 1].item = e.item
                       /\ SearchesAt(e.depth) = {i + 1}
               /\ (i + 2 \in DOMAIN L /\ NamesMember(L[i + 1]))
                    => /\ L[i + 2].ev = "detail" /\ L[i + 2].depth = e.depth + 1
                       /\ L[i + 2].item = L[i + 1].out.member /\ L[i + 2].attempt = 0
                       /\ IsPayload(L[i + 2])
                            => /\ i + 4 \in DOMAIN L
                               /\ L[i + 3].ev = "end" /\ L[i + 3].depth = e.depth + 1
                               /\ L[i + 4].ev = "end" /\ L[i + 4].depth = e.depth
                               /\ L[i + 3].res = Returned("payload", L[i + 1].out.member)
                               /\ L[i + 4].res = L[i + 3].res
                               /\ i = 1 => /\ gid.state = "done" /\ gid.res = L[i + 3].res
                                           /\ Cardinality(Requests(L)) = 3
                                           /\ Len(L) = 5

\* The call for i1 was answered 400 with 11006, the search named i2, and the
\* detail request for i2 brought the payload the call has returned.
C12_Witness ==
    /\ gid.state = "done" /\ gid.item = "i1" /\ Len(gid.log) = 5
    /\ gid.log[1].ev = "detail" /\ IsItemGroupAnswer(gid.log[1])
    /\ gid.log[2].ev = "search" /\ gid.log[2].out.member = "i2"
    /\ gid.log[3].ev = "detail" /\ gid.log[3].item = "i2"
    /\ gid.res = Returned("payload", "i2")

----------------------------------------------------------------------------
(* C13 *)

\* C13: when the nested invocation for a group's member ends with a typed
\* error, the invocation that resolved the group ends with that same error,
\* and so does the caller's call.
C13_MemberFailureReachesCaller ==
    \A i \in DOMAIN gid.log :
        LET e == gid.log[i]
        IN (e.ev = "end" /\ e.depth > 1 /\ e.kind = "raise"
            /\ e.value \in {"UnauthorizedError", "ItemNotFoundError", "RateLimitError",
                            "APIError"})
            => /\ i + 1 \in DOMAIN gid.log
               /\ gid.log[i + 1].ev = "end" /\ gid.log[i + 1].depth = e.depth - 1
               /\ gid.log[i + 1].res = e.res
               /\ gid.state = "done" => gid.res = e.res

----------------------------------------------------------------------------
(* C14 *)

\* The search logged at i is the last request of the call, which ended at once
\* with every invocation returning `res`.
SearchEndsWith(i, res) ==
    LET d == gid.log[i].depth
    IN /\ Len(gid.log) = i + d
       /\ \A j \in (i + 1)..(i + d) :
            /\ gid.log[j].ev = "end" /\ gid.log[j].depth = d - (j - i - 1)
            /\ gid.log[j].res = res
       /\ gid.state = "done" /\ gid.res = res

\* C14: a group search answered with a status other than 200, with a transport
\* error or with no summaries makes the resolution return None: nothing is
\* raised and no detail request follows; a first summary without legacyItemId
\* is returned as it is, and no request follows.
C14_GroupResolutionNull ==
    \A i \in DOMAIN gid.log :
        LET e == gid.log[i]
        IN e.ev = "search"
            => /\ (e.kind # "response" \/ e.status # 200
                   \/ (e.out.json /\ e.out.summaries = "none"))
                    => SearchEndsWith(i, ReturnedNone)
               /\ (e.kind = "response" /\ e.status = 200 /\ e.out.json
                   /\ e.out.summaries = "nolegacy")
                    => SearchEndsWith(i, Returned("summary", ""))

\* A group search that timed out has made the call return None.
C14_Witness ==
    /\ gid.state = "done" /\ gid.res = ReturnedNone /\ Len(gid.log) = 3
    /\ gid.log[2].ev = "search" /\ gid.log[2].kind = "Timeout"

----------------------------------------------------------------------------
(* C15 *)

\* C15: whatever get_item_details raises to its caller is one of the typed
\* errors UnauthorizedError, ItemNotFoundError, RateLimitError, APIError.
C15_OnlyTypedErrorsEscape ==
    (gid.state = "done" /\ gid.res.kind = "raise")
        => gid.res.value \in {"UnauthorizedError", "ItemNotFoundError", "RateLimitError",
                              "APIError"}

----------------------------------------------------------------------------
(* C16 *)

\* C16: a call that resolved no item group never returns None: it ends with
\* the parsed payload or with a raised typed error.
C16_NeverNone ==
    (gid.state = "done" /\ SearchesAt(1) = {})
        => \/ gid.res = Returned("payload", gid.item)
           \/ /\ gid.res.kind = "raise"
              /\ gid.res.value \in {"UnauthorizedError", "ItemNotFoundError",
                                    "RateLimitError", "APIError"}

----------------------------------------------------------------------------
(* C17 *)

\* C17: a call of get_item_details starts with the token refresh exactly when
\* the client has not refreshed yet or more than 5400 seconds have passed
\* since its last refresh, however long ago that was.
C17_RefreshIffStale ==
    [][(gid.state = "idle" /\ gid'.state # "idle")
        => ((gid'.log # << >> /\ gid'.log[1].ev = "refresh_token")
            <=> (\/ client.token_refreshed_at = NoTime
                 \/ now - client.token_refreshed_at > 5400))]_vars

----------------------------------------------------------------------------
(* C18 *)

HasRecord == listing.state = "done" /\ listing.result.kind = "record"
\* The configured tax rate, in percent: 0 when SALES_TAX_RATE is unset or unparsable.
ConfiguredRate == IF listing.setting.kind = "num" THEN listing.setting.value ELSE 0

----------------------------------------------------------------------------
(* C19 *)

\* C19: in every record fetch_listing_data returns, the item price, the
\* shipping cost, the import charges and the sales tax are all non-negative,
\* whatever the payload's values and the configured tax rate.
C19_ComponentsNonNegative ==
    HasRecord =>
        /\ listing.result.rec.item_price >= 0
        /\ listing.result.rec.shipping_cost >= 0
        /\ listing.result.rec.import_charges >= 0
        /\ listing.result.rec.sales_tax >= 0

----------------------------------------------------------------------------
(* C20 *)

\* C20: in every record fetch_listing_data returns, a shipping type of FREE
\* goes with a shipping cost of 0, whichever rule set the type; a first
\* shipping option whose cost is 0 or whose type is FREE gives (FREE, 0).
C20_FreeShippingCostsNothing ==
    HasRecord =>
        /\ listing.result.rec.shipping_type = "FREE" => listing.result.rec.shipping_cost = 0
        /\ (/\ listing.input.payload.options = "first"
            /\ \/ listing.input.payload.optionType = "FREE"
               \/ ToFloat(listing.input.payload.optionCost) = 0)
           => (listing.result.rec.shipping_type = "FREE" /\ listing.result.rec.shipping_cost = 0)

\* A record made from a first shipping option of type FREE that states a cost.
C20_Witness ==
    /\ HasRecord
    /\ listing.input.payload.options = "first"
    /\ listing.input.payload.optionType = "FREE"
    /\ ToFloat(listing.input.payload.optionCost) > 0
    /\ listing.result.rec.shipping_type = "FREE"

----------------------------------------------------------------------------
(* C21 *)

ShippingTypes == {"FREE", "CALCULATED", "FIXED", "Unknown"}

\* C21 as stated: in every record fetch_listing_data returns, shipping_type is
\* one of FREE, CALCULATED, FIXED, Unknown, for any payload.
C21_ShippingTypeClosed ==
    HasRecord => listing.result.rec.shipping_type \in ShippingTypes

\* C21 as amended: shipping_type is FREE, CALCULATED, Unknown or the
\* shippingCostType of the first shipping option; it is one of the four
\* whenever the payload has no shipping option or its first option's type is
\* absent or one of the four.
C21_ShippingTypeFromPayload ==
    HasRecord =>
        LET p == listing.input.payload
            t == listing.result.rec.shipping_type
        IN /\ p.options # "first" => t \in {"FREE", "CALCULATED", "Unknown"}
           /\ p.options = "first" => t \in {"FREE", p.optionType}
           /\ (p.options = "first" /\ p.optionType \in ShippingTypes) => t \in ShippingTypes

\* Records of each origin: a first option's FIXED, and the fallback's CALCULATED.
C21_Witness ==
    /\ HasRecord
    /\ \/ /\ listing.input.payload.options = "first"
          /\ listing.result.rec.shipping_type = "FIXED"
       \/ /\ listing.input.payload.options # "first"
          /\ listing.result.rec.shipping_type = "CALCULATED"

----------------------------------------------------------------------------
(* C22 *)

\* The phrase of free shipping, in whatever case the payload writes it.
SaysFreeShipping(p) == p.text.phrase \in {"free shipping", "free delivery"}

\* C22: shipping is derived by the first rule that matches, in this order, and
\* no lower rule is consulted once a higher one matched: the first shipping
\* option; the phrase of free shipping in the text, in any case, giving
\* (FREE, 0); the alternate fields' cost when it is > 0, giving (CALCULATED,
\* cost); the text patterns' amount, giving (CALCULATED, cost); else (Unknown, 0).
C22_ShippingRuleOrder ==
    HasRecord =>
        LET p == listing.input.payload
            got == <<listing.result.rec.shipping_type, listing.result.rec.shipping_cost>>
        IN IF p.options = "first"
           THEN got = (IF p.optionType = "FREE" \/ ToFloat(p.optionCost) = 0
                       THEN <<"FREE", 0>> ELSE <<p.optionType, ToFloat(p.optionCost)>>)
           ELSE IF SaysFreeShipping(p) THEN got = <<"FREE", 0>>
           ELSE IF p.fieldCost > 0 THEN got = <<"CALCULATED", p.fieldCost>>
           ELSE IF p.textCost > 0 THEN got = <<"CALCULATED", p.textCost>>
           ELSE got = <<"Unknown", 0>>

----------------------------------------------------------------------------
(* C23 *)

\* C23: in every record fetch_listing_data returns, import_charges is the
\* payload's importDuty.amount.value whenever the payload carries one, for
\* every value and every ship-from country; only when it is absent is it 10%
\* of item price and shipping cost for a country other than US, and 0 for US.
C23_ImportCharges ==
    HasRecord =>
        LET p == listing.input.payload
            r == listing.result.rec
        IN IF p.duty.kind = "num" THEN r.import_charges = p.duty.value
           ELSE IF p.country # "US"
                THEN r.import_charges * 10 = r.item_price + r.shipping_cost
                ELSE r.import_charges = 0

----------------------------------------------------------------------------
(* C24 *)

\* The payload's image URLs in source order: the primary image's, if it has
\* one, then every additional image's.
SourceImages(p) == ImageUrls(p.image) \o ImageUrls(p.additionalImages)

\* C24: images of every returned record has length at most 24 and is a prefix
\* of the payload's image URLs in source order, the primary image's first.
C24_ImagesCapped ==
    HasRecord =>
        /\ Len(listing.result.rec.images) <= 24
        /\ IsPrefix(listing.result.rec.images, SourceImages(listing.input.payload))
        /\ (ImageUrls(listing.input.payload.image) # << >> /\ listing.result.rec.images # << >>)
             => listing.result.rec.images[1] = listing.input.payload.image[1].url

\* A record of a payload with a primary image and more than 24 URLs in all.
C24_Witness ==
    /\ HasRecord
    /\ ImageUrls(listing.input.payload.image) # << >>
    /\ Len(SourceImages(listing.input.payload)) > 24
    /\ Len(listing.result.rec.images) = 24

----------------------------------------------------------------------------
(* C25 *)

Fetched == listing.state = "done"
\* The positions of the path's itm segments that a segment follows, and the
\* purely numeric segments after position i.
ItmSegments(u) == {i \in 1..(Len(u.segments) - 1) : u.segments[i] = "itm"}
NumericAfter(u, i) == {j \in (i + 1)..Len(u.segments) : u.segments[j] \in {"123", "456"}}
\* The URL gives no item id: it is malformed, its host does not contain the
\* vendor domain, its path has no itm segment, or no purely numeric segment
\* comes after itm.
NoItemIn(u) ==
    \/ u.kind # "url"
    \/ u.host \notin {"www.ebay.com", "ebay.com", "ebay.com.example.net"}
    \/ \A i \in 1..Len(u.segments) : u.segments[i] # "itm"
    \/ \A i \in ItmSegments(u) : NumericAfter(u, i) = {}

\* C25: for a URL that is malformed, whose host does not contain the vendor
\* domain, whose path has no itm segment or no purely numeric segment after
\* itm, extract_item_id_from_url returns None without raising, and
\* fetch_listing_data returns None without calling get_item_details, so
\* without any item-detail request.
C25_NoItemIdNoRequest ==
    (Fetched /\ NoItemIn(listing.input.url)) =>
        /\ listing.asked = None
        /\ listing.result.kind = "None"

\* Such a fetch: a URL of another host that has an itm segment and digits, for
\* which get_item_details would have raised.
C25_Witness ==
    /\ Fetched
    /\ listing.input.url.kind = "url" /\ listing.input.url.scheme
    /\ listing.input.url.host = "www.google.com"
    /\ listing.input.url.segments = <<"itm", "123">>
    /\ listing.input.details.kind = "raise"
    /\ listing.result.kind = "None"

----------------------------------------------------------------------------
(* C26 *)

\* The URL is on the vendor host and has the form .../itm/.../<digits>[?...].
ItemUrl(u) ==
    /\ u.kind = "url" /\ u.scheme
    /\ u.host \in {"www.ebay.com", "ebay.com", "ebay.com.example.net"}
    /\ ItmSegments(u) # {}
    /\ u.segments[Len(u.segments)] \in {"123", "456"}
FirstItm(u) == CHOOSE i \in ItmSegments(u) : \A k \in ItmSegments(u) : i <= k

\* C26 as stated: for a URL on the vendor host of the form
\* .../itm/.../<digits>[?...], extract_item_id_from_url returns <digits>,
\* whatever the segments between itm and <digits> are.
C26_ReturnsLastDigits ==
    (Fetched /\ ItemUrl(listing.input.url)) =>
        listing.asked = listing.input.url.segments[Len(listing.input.url.segments)]

\* C26 as amended: for such a URL extract_item_id_from_url returns the first
\* purely numeric segment after the first itm segment; that is <digits>
\* whenever no segment between that itm and <digits> is purely numeric.
C26_ReturnsFirstDigits ==
    (Fetched /\ ItemUrl(listing.input.url)) =>
        LET u == listing.input.url
            first == CHOOSE j \in NumericAfter(u, FirstItm(u)) :
                        \A k \in NumericAfter(u, FirstItm(u)) : j <= k
        IN /\ listing.asked = u.segments[first]
           /\ NumericAfter(u, FirstItm(u)) = {Len(u.segments)}
                => listing.asked = u.segments[Len(u.segments)]

\* A fetch of such a URL, with a title between itm and the digits.
C26_Witness ==
    /\ Fetched
    /\ ItemUrl(listing.input.url)
    /\ listing.input.url.segments = <<"itm", "title", "123">>
    /\ listing.asked = "123"

----------------------------------------------------------------------------
(* C27 *)

ApiErrors == {"UnauthorizedError", "ItemNotFoundError", "RateLimitError", "APIError"}

\* C27: every typed API error get_item_details raises leaves
\* fetch_listing_data as it is: the same type, not wrapped, not turned into
\* None.
C27_ApiErrorsPropagate ==
    (/\ Fetched
     /\ listing.asked # None
     /\ listing.input.details.kind = "raise"
     /\ listing.input.details.value \in ApiErrors) =>
        /\ listing.result.kind = "raise"
        /\ listing.result.exc = listing.input.details.value

\* A fetch in which get_item_details raised RateLimitError, and so did the fetch.
C27_Witness ==
    /\ Fetched
    /\ listing.asked # None
    /\ listing.input.details = Raised("RateLimitError")
    /\ listing.result.kind = "raise"
    /\ listing.result.exc = "RateLimitError"

----------------------------------------------------------------------------
(* C28 *)

\* C28: a field of unexpected shape or value never aborts the normalization:
\* for any payload get_item_details returns, fetch_listing_data returns a
\* record, with the item price defaulted to 0 when price.value is not
\* numeric and the other fields derived as usual.
C28_FieldFailuresDefaulted ==
    (/\ Fetched
     /\ listing.asked # None
     /\ listing.input.details.kind = "return"
     /\ listing.input.details.value # "None"
     /\ ~listing.input.payload.empty) =>
        /\ listing.result.kind = "record"
        /\ ~Parses(listing.input.payload.price) => listing.result.rec.item_price = 0
        /\ listing.result.rec.images = Images(listing.input.payload)

----------------------------------------------------------------------------
(* C29 *)

\* The account's app id or client secret is missing from the store.
MissingCredentials(suffix) ==
    \/ ~Truthy(Getenv(env, _key("EBAY_APP_ID", suffix)))
    \/ ~Truthy(Getenv(env, _key("EBAY_CLIENT_SECRET", suffix)))

\* C29: for an account whose app id or client secret is missing, setting up
\* its token manager, and every ensure_valid_token call, fails with
\* ConfigurationError before any probe or refresh is attempted; it is never
\* reported as a failed refresh.
C29_MissingCredentialsFailFast ==
    (call.op \in {"get_token_manager", "ensure_valid_token"} /\ MissingCredentials(call.suffix)) =>
        /\ call.result = "ConfigurationError"
        /\ call.events = << >>

----------------------------------------------------------------------------
(* C30 *)

\* Thread t sent a refresh request.
Refreshed(t) == race.th[t].sent # None
\* Thread t's call stored a new access token, one the API accepts, and
\* returned True.
StoredNewToken(t) ==
    /\ race.th[t].result = "True"
    /\ Refreshed(t)
    /\ "access_token" \in DOMAIN race.th[t].token_data
    /\ race.th[t].token_data["access_token"] \in race.accepted

C31_ClientOfAccount ==
    (call.op = "eBayClient" /\ client.made) =>
        /\ call.reads \subseteq AccountKeys(call.suffix)
        /\ client.user_token = Getenv(env, UserTokenKey(call.suffix))

----------------------------------------------------------------------------
(* C32 *)

\* The call refreshed and saved without a failure of the store, and the
\* token-endpoint response it saved carries an access token and no refresh
\* token.
SavedAccessOnly(c) ==
    /\ IsEnsure(c)
    /\ \E i \in EventsOf(c, "save") :
          /\ c.events[i].ok
          /\ DOMAIN c.events[i].data = {"access_token"}

\* C32: when the response of a successful refresh carries no refresh_token,
\* the stored refresh token keeps its old value, the stored access token
\* becomes the response's access_token, and ensure_valid_token returns True.
C32_KeepsStep ==
    LET s == call'.suffix
    IN SavedAccessOnly(call') =>
          /\ Getenv(env', RefreshTokenKey(s)) = Getenv(env, RefreshTokenKey(s))
          /\ Getenv(env', UserTokenKey(s)) = TheEvent(call', "save").data["access_token"]
          /\ call'.result = "True"
C32_KeepsRefreshToken == [][C32_KeepsStep]_vars

C32_Witness ==
    /\ SavedAccessOnly(call) /\ call.suffix = "2"
    /\ Getenv(env, "EBAY_REFRESH_TOKEN_2") = "r1"
    /\ Getenv(env, "EBAY_USER_TOKEN_2") = "a2"
    /\ call.result = "True"

----------------------------------------------------------------------------
(* C33 *)

\* C33: a get_item_details call makes at most max_retries detail requests
\* for the id it was given, at most one item-group search, and detail
\* requests for nothing but that id and the one member the search resolved:
\* the item-group redirect is followed once, not again from the member.
C33_RedirectBounded ==
    /\ Len(DetailRequests(1)) <= gid.max_retries
    /\ Cardinality({i \in DOMAIN gid.log : gid.log[i].ev = "search"}) <= 1
    /\ \A i \in DOMAIN gid.log : gid.log[i].depth <= 2
    /\ Len(DetailRequests(2)) <= DefaultMaxRetries

----------------------------------------------------------------------------
(* C34 *)

\* The outcomes the loop retries: 429, 5xx, a timeout or a connection error.
Retryable(e) == Is429(e) \/ FailedTransiently(e)

\* C34: the attempt counter is shared by all retryable outcomes.  An
\* invocation all of whose detail requests were answered 429, 5xx or by a
\* transport error makes at most max_retries of them, numbered 0, 1, ... in
\* order; between two consecutive requests it sleeps exactly once, 2^(k+1)
\* seconds after a 429 at attempt k and 2^k seconds after a 5xx or transport
\* error at attempt k; after the request of attempt max_retries - 1 it does
\* not sleep but ends, with RateLimitError when that request was answered 429
\* and with APIError otherwise; and it does not end earlier.
C34_SharedAttemptCounter ==
    \A d \in Depths :
        LET own == Own(d)
            reqs == DetailRequests(d)
            n == MaxRetriesOf(d)
        IN (reqs # << >> /\ \A i \in DOMAIN reqs : Retryable(reqs[i])) =>
              /\ Len(reqs) <= n
              /\ Len(own) <= 2 * n
              /\ Ended(d) => Len(own) = 2 * n
              /\ \A j \in DOMAIN own :
                    IF j % 2 = 1
                    THEN own[j].ev = "detail" /\ own[j].attempt = (j - 1) \div 2
                    ELSE LET k == own[j - 1].attempt
                         IN IF j < 2 * n
                            THEN /\ own[j].ev = "sleep"
                                 /\ own[j].secs = (IF Is429(own[j - 1]) THEN Pow2(k + 1)
                                                   ELSE Pow2(k))
                            ELSE /\ own[j].ev = "end"
                                 /\ own[j].res = (IF Is429(own[j - 1])
                                                  THEN Raised("RateLimitError")
                                                  ELSE Raised("APIError"))

\* A 5xx, a timeout and a 429, in that order, have exhausted a call with
\* max_retries = 3: it slept 1 and 2 seconds and raised RateLimitError.
C34_Witness ==
    /\ gid.state = "done" /\ gid.max_retries = 3
    /\ Len(Own(1)) = 6
    /\ Own(1)[1].kind = "response" /\ Own(1)[1].status = 500
    /\ Own(1)[2].secs = 1
    /\ Own(1)[3].kind = "Timeout"
    /\ Own(1)[4].secs = 2
    /\ Is429(Own(1)[5])
    /\ gid.res = Raised("RateLimitError")

----------------------------------------------------------------------------
(* C35 *)

\* C35 as stated: in every record, shipping_type Unknown implies a
\* shipping_cost of 0, also when the first shipping option has a positive
\* cost and no shippingCostType.
C35_UnknownCostsNothing ==
    (HasRecord /\ listing.result.rec.shipping_type = "Unknown") =>
        listing.result.rec.shipping_cost = 0

\* C35 as amended: shipping_type Unknown implies a shipping_cost of 0 when
\* the payload has no shipping option; when the first shipping option has a
\* nonzero cost and no shippingCostType, the record is Unknown with that
\* option's cost.
C35_UnknownFromFallbackCostsNothing ==
    (HasRecord /\ listing.result.rec.shipping_type = "Unknown") =>
        LET p == listing.input.payload
            r == listing.result.rec
        IN /\ p.options # "first" => r.shipping_cost = 0
           /\ p.options = "first" =>
                 /\ p.optionType = "Unknown"
                 /\ r.shipping_cost = ToFloat(p.optionCost)
                 /\ r.shipping_cost # 0

\* Both origins of Unknown: a first option costing 3.00 with no type, and a
\* payload with no option and no shipping information.
C35_Witness ==
    /\ HasRecord /\ listing.result.rec.shipping_type = "Unknown"
    /\ listing.input.payload.options = "first"
    /\ listing.input.payload.optionCost = Num(300)
    /\ listing.result.rec.shipping_cost = 300

----------------------------------------------------------------------------
(* C36 *)

\* The stored pair of the account, and the pair a response carries.
StoredPair == <<Getenv(env, UserTokenKey(Account0)), Getenv(env, RefreshTokenKey(Account0))>>
InitialPair == <<ProvisionedAccount.EBAY_USER_TOKEN, ProvisionedAccount.EBAY_REFRESH_TOKEN>>
PairOf(data) == <<data["access_token"], data["refresh_token"]>>
BothTokens(data) == DOMAIN data = {"access_token", "refresh_token"}

\* C36: when every token-endpoint response carries both tokens, the stored
\* (access, refresh) pair of the account is at every moment the initial pair
\* or the pair of one single response, also while two ensure_valid_token
\* calls interleave their store writes.
C36_StoredPairWhole ==
    (\A d \in race.answers : BothTokens(d)) =>
        \/ StoredPair = InitialPair
        \/ \E d \in race.answers : StoredPair = PairOf(d)


----------------------------------------------------------------------------
(* C37 *)

\* C37: whenever ensure_valid_token returns False, the stored access token
\* and refresh token of the account are what they were before the call; a
\* save that fails on its second write does not leave the new access token
\* next to the old refresh token.
C37_FailureStep ==
    LET s == call'.suffix
    IN (IsEnsure(call') /\ call'.result = "False") =>
          /\ Getenv(env', UserTokenKey(s)) = Getenv(env, UserTokenKey(s))
          /\ Getenv(env', RefreshTokenKey(s)) = Getenv(env, RefreshTokenKey(s))
C37_FailureLeavesStore == [][C37_FailureStep]_vars

----------------------------------------------------------------------------
(* C38 *)

\* C38: when the token refresh at the head of get_item_details fails
\* (_refresh_token raises ValueError and no item-detail request is sent),
\* fetch_listing_data reports the failure by raising too: it does not return
\* None for it.
C38_RefreshFailureRaised ==
    (/\ Fetched
     /\ listing.asked # None
     /\ listing.input.details = Raised("ValueError")) =>
        listing.result.kind = "raise"

----------------------------------------------------------------------------
(* C39 *)

\* C39: the client never sends a stale token: every item-detail request it
\* sends carries the access token the store holds when the request is sent,
\* also after another caller's refresh has replaced the stored token.
C39_RequestStep ==
    LET i == Len(gid.log) + 1
    IN (i \in DOMAIN gid'.log /\ gid'.log[i].ev = "detail") =>
          gid'.log[i].token = Getenv(env, UserTokenKey(Account0))
C39_NeverStaleToken == [][C39_RequestStep]_vars

----------------------------------------------------------------------------
(* C40 *)

\* C40: under concurrent first calls of get_token_manager (or get_config) for
\* one suffix, at most one instance per suffix is ever created, and every
\* caller is returned that same instance.
C40_OneInstancePerSuffix ==
    /\ \A k \in Classes \X Suffixes : constructed[k] <= 1
    /\ \A t, u \in Threads :
          (/\ race.callers[t].pc = "done" /\ race.callers[u].pc = "done"
           /\ race.callers[t].op = race.callers[u].op
           /\ race.callers[t].suffix = race.callers[u].suffix)
             => race.callers[t].ret = race.callers[u].ret
====
